---- MODULE Spec2Model ----
(***************************************************************************)
(* Model of the MAX22200 octal solenoid driver (src/src/max22200.ipp,      *)
(* src/inc/max22200_types.hpp, src/inc/max22200_registers.hpp).            *)
(*                                                                         *)
(* The driver is single threaded and blocking.  Every public operation is  *)
(* one action, except Initialize, whose retry loop is unrolled into one    *)
(* action per register transaction (pc names the position in the loop).    *)
(* The transport (SPI + GPIO) is the environment: every transfer result,   *)
(* fault byte and received data word is an input chosen with \E.           *)
(*                                                                         *)
(* Units.  Setpoints (mA or percent) are held in 1/127 of a unit so that   *)
(* the decoder's raw/127*scale is exact; times are held in microseconds.   *)
(***************************************************************************)
EXTENDS Integers, Sequences, FiniteSets, TLC

\* ------------------------------------------------------------------------
\* Program constants
\* ------------------------------------------------------------------------
NUM_CHANNELS_ == 8
\* (variant: one more attempt)
kMaxInitRetriesFour == 3 + 1

kMaxInitRetries == 3
FAULT_BYTE_COMER == 4
RegBank_STATUS == 0
RegBank_CFG_CH0 == 1
RegBank_FAULT == 9
RegBank_CFG_DPM == 10
RBW_WRITE == 128
MODE_8BIT == 1
A_BNK_POS == 1
MAX_SPI_FREQ_STANDALONE_ == 10000000
PowerUpDelayUs == 500
SetpointScale == 127
TimeScale == 1000

\* ------------------------------------------------------------------------
\* Bounds of the model (inputs the environment and the caller may supply)
\* ------------------------------------------------------------------------
MaxChannelArg == 8
MaxPairArg == 4
MaxCodecMa == 6

\* ------------------------------------------------------------------------
\* Bit helpers (uint8_t / uint32_t arithmetic)
\* ------------------------------------------------------------------------
Pow2(n) == 2 ^ n
Field(v, shift, width) == (v \div Pow2(shift)) % Pow2(width)
BitSet(v, n) == Field(v, n, 1) = 1
B2N(b) == IF b THEN 1 ELSE 0

\* A 32-bit register value is held as its four bytes, most significant first
\* (TLC's integers are 32-bit signed): Word(b3, b2, b1, b0) is
\* b3 << 24 | b2 << 16 | b1 << 8 | b0.
Word(b3, b2, b1, b0) == << b3, b2, b1, b0 >>
ByteOf(val, k) == val[4 - k]
\* (val >> shift) & (2^width - 1), for a field that lies inside one byte
FieldW(val, shift, width) == Field(ByteOf(val, shift \div 8), shift % 8, width)
BitSetW(val, n) == FieldW(val, n, 1) = 1

\* x | (1 << n) on a byte
OrBit(x, n) == IF BitSet(x, n) THEN x ELSE x + Pow2(n)
\* x & ~(1 << n) on a byte
ClearBit(x, n) == IF BitSet(x, n) THEN x - Pow2(n) ELSE x

\* ------------------------------------------------------------------------
\* RegisterCodec: STATUS register
\* ------------------------------------------------------------------------
DefaultStatusConfig ==
  [channels_on_mask |-> 0,
   overtemperature_masked |-> FALSE, overcurrent_masked |-> FALSE,
   open_load_fault_masked |-> FALSE, hit_not_reached_masked |-> FALSE,
   plunger_movement_fault_masked |-> FALSE, communication_error_masked |-> TRUE,
   undervoltage_masked |-> FALSE, master_clock_80khz |-> FALSE,
   channel_pair_mode_76 |-> 0, channel_pair_mode_54 |-> 0,
   channel_pair_mode_32 |-> 0, channel_pair_mode_10 |-> 0,
   active |-> FALSE,
   overtemperature |-> FALSE, overcurrent |-> FALSE, open_load_fault |-> FALSE,
   hit_not_reached |-> FALSE, plunger_movement_fault |-> FALSE,
   communication_error |-> FALSE, undervoltage |-> FALSE]

StatusToRegister(s) ==
  Word(s.channels_on_mask,
         B2N(s.overtemperature_masked) * Pow2(7)
       + B2N(s.overcurrent_masked) * Pow2(6)
       + B2N(s.open_load_fault_masked) * Pow2(5)
       + B2N(s.hit_not_reached_masked) * Pow2(4)
       + B2N(s.plunger_movement_fault_masked) * Pow2(3)
       + B2N(s.communication_error_masked) * Pow2(2)
       + B2N(s.undervoltage_masked) * Pow2(1)
       + B2N(s.master_clock_80khz),
         s.channel_pair_mode_76 * Pow2(6)
       + s.channel_pair_mode_54 * Pow2(4)
       + s.channel_pair_mode_32 * Pow2(2)
       + s.channel_pair_mode_10,
       B2N(s.active))

StatusFromRegister(val) ==
  [channels_on_mask |-> FieldW(val, 24, 8),
   overtemperature_masked |-> BitSetW(val, 23),
   overcurrent_masked |-> BitSetW(val, 22),
   open_load_fault_masked |-> BitSetW(val, 21),
   hit_not_reached_masked |-> BitSetW(val, 20),
   plunger_movement_fault_masked |-> BitSetW(val, 19),
   communication_error_masked |-> BitSetW(val, 18),
   undervoltage_masked |-> BitSetW(val, 17),
   master_clock_80khz |-> BitSetW(val, 16),
   channel_pair_mode_76 |-> FieldW(val, 14, 2),
   channel_pair_mode_54 |-> FieldW(val, 12, 2),
   channel_pair_mode_32 |-> FieldW(val, 10, 2),
   channel_pair_mode_10 |-> FieldW(val, 8, 2),
   overtemperature |-> BitSetW(val, 7),
   overcurrent |-> BitSetW(val, 6),
   open_load_fault |-> BitSetW(val, 5),
   hit_not_reached |-> BitSetW(val, 4),
   plunger_movement_fault |-> BitSetW(val, 3),
   communication_error |-> BitSetW(val, 2),
   undervoltage |-> BitSetW(val, 1),
   active |-> BitSetW(val, 0)]

\* ------------------------------------------------------------------------
\* RegisterCodec: channel configuration register
\* ------------------------------------------------------------------------
getChopFreqKhz(master_clock_80khz, cf) ==
  CASE cf = 0 -> IF master_clock_80khz THEN 20 ELSE 25
    [] cf = 1 -> IF master_clock_80khz THEN 26 ELSE 33
    [] cf = 2 -> IF master_clock_80khz THEN 40 ELSE 50
    [] cf = 3 -> IF master_clock_80khz THEN 80 ELSE 100
    [] OTHER -> 25

currentMaToRaw(full_scale_current_ma, ma) ==
  IF full_scale_current_ma = 0 THEN 0
  ELSE IF ma >= full_scale_current_ma THEN 127
  ELSE LET raw == (ma * 127 + full_scale_current_ma \div 2) \div full_scale_current_ma
       IN IF raw > 127 THEN 127 ELSE raw

\* (variant: the quotient is truncated, without the + 0.5)
hitTimeMsToRawTruncating(us, master_clock_80khz, cf) ==
  LET fchop_khz == getChopFreqKhz(master_clock_80khz, cf)
      raw == (us * fchop_khz) \div (40 * TimeScale)
  IN IF us < 0 \/ us >= 1000000 * TimeScale THEN 255
     ELSE IF us = 0 THEN 0
     ELSE IF raw > 254 THEN 255
     ELSE IF raw = 0 THEN 1
     ELSE raw

\* ms is held in microseconds: (ms/1000)*fchop_hz/40 + 0.5 = us*fchop_khz/40000 + 1/2
hitTimeMsToRaw(us, master_clock_80khz, cf) ==
  LET fchop_khz == getChopFreqKhz(master_clock_80khz, cf)
      raw == (2 * us * fchop_khz + 40 * TimeScale) \div (80 * TimeScale)
  IN IF us < 0 \/ us >= 1000000 * TimeScale THEN 255
     ELSE IF us = 0 THEN 0
     ELSE IF raw > 254 THEN 255
     ELSE IF raw = 0 THEN 1
     ELSE raw

\* One setpoint (v in 1/127 unit) to its 7-bit code
SetpointToRaw(drive_mode, v, ifs) ==
  IF drive_mode = "CDR"
  THEN IF ifs = 0 THEN 0
       ELSE IF v >= ifs * SetpointScale THEN 127
       ELSE currentMaToRaw(ifs, (2 * v + SetpointScale) \div (2 * SetpointScale))
  ELSE IF v <= 0 THEN 0
       ELSE IF v >= 100 * SetpointScale THEN 127
       ELSE LET r == (2 * v + 100) \div 200
            IN IF r > 127 THEN 127 ELSE r

DefaultChannelConfig ==
  [hit_setpoint |-> 0, hold_setpoint |-> 0, hit_time_ms |-> 0,
   half_full_scale |-> FALSE, trigger_from_pin |-> FALSE,
   drive_mode |-> "CDR", side_mode |-> "LOW_SIDE", chop_freq |-> 0,
   slew_rate_control_enabled |-> FALSE, open_load_detection_enabled |-> FALSE,
   plunger_movement_detection_enabled |-> FALSE,
   hit_current_check_enabled |-> FALSE]

ChannelToRegister(c, ifs, clk80) ==
  Word(  B2N(c.half_full_scale) * Pow2(7)
       + (SetpointToRaw(c.drive_mode, c.hold_setpoint, ifs) % 128),
         B2N(c.trigger_from_pin) * Pow2(7)
       + (SetpointToRaw(c.drive_mode, c.hit_setpoint, ifs) % 128),
       hitTimeMsToRaw(c.hit_time_ms, clk80, c.chop_freq),
         B2N(c.drive_mode = "VDR") * Pow2(7)
       + B2N(c.side_mode = "HIGH_SIDE") * Pow2(6)
       + c.chop_freq * Pow2(4)
       + B2N(c.slew_rate_control_enabled) * Pow2(3)
       + B2N(c.open_load_detection_enabled) * Pow2(2)
       + B2N(c.plunger_movement_detection_enabled) * Pow2(1)
       + B2N(c.hit_current_check_enabled))

ChannelFromRegister(val, ifs, clk80) ==
  LET hold_raw == FieldW(val, 24, 7)
      hit_raw == FieldW(val, 16, 7)
      hit_time_raw == FieldW(val, 8, 8)
      dm == IF BitSetW(val, 7) THEN "VDR" ELSE "CDR"
      cf == FieldW(val, 4, 2)
  IN [half_full_scale |-> BitSetW(val, 31),
      trigger_from_pin |-> BitSetW(val, 23),
      drive_mode |-> dm,
      side_mode |-> IF BitSetW(val, 6) THEN "HIGH_SIDE" ELSE "LOW_SIDE",
      chop_freq |-> cf,
      slew_rate_control_enabled |-> BitSetW(val, 3),
      open_load_detection_enabled |-> BitSetW(val, 2),
      plunger_movement_detection_enabled |-> BitSetW(val, 1),
      hit_current_check_enabled |-> BitSetW(val, 0),
      hit_setpoint |-> IF dm = "CDR" THEN hit_raw * ifs ELSE hit_raw * 100,
      hold_setpoint |-> IF dm = "CDR" THEN hold_raw * ifs ELSE hold_raw * 100,
      hit_time_ms |-> IF hit_time_raw = 0 THEN 0
                      ELSE IF hit_time_raw = 255 THEN -1 * TimeScale
                      ELSE (hit_time_raw * 40 * TimeScale) \div getChopFreqKhz(clk80, cf)]

getChannelCfgBank(channel) == (RegBank_CFG_CH0 + channel) % 256

\* (variant: channel numbers up to and including NUM_CHANNELS_ pass)
IsValidChannelInclusive(channel) == channel <= NUM_CHANNELS_

IsValidChannel(channel) == channel < NUM_CHANNELS_

\* ------------------------------------------------------------------------
\* CommandProtocol
\* ------------------------------------------------------------------------
\* (variant: the bank address is placed one bit higher, at bits 5:2)
CommandReg_buildShifted(bank, write, mode8) ==
  (IF write THEN RBW_WRITE ELSE 0) + (bank % 16) * Pow2(A_BNK_POS + 1)
    + (IF mode8 THEN MODE_8BIT ELSE 0)

CommandReg_build(bank, write, mode8) ==
  (IF write THEN RBW_WRITE ELSE 0) + (bank % 16) * Pow2(A_BNK_POS)
    + (IF mode8 THEN MODE_8BIT ELSE 0)

\* Transport events, in call order.  arg: the transmitted bytes of a transfer,
\* the pin of a GPIO call, the parameters of the others.  rx: the bytes the
\* driver takes from a successful transfer.
Ev(e, a, r, o) == [ev |-> e, arg |-> a, rx |-> r, ok |-> o]
Transfer(tx, rx, ok) == Ev("Transfer", tx, IF ok THEN rx ELSE << >>, ok)
GpioSetActive(pin) == Ev("GpioSetActive", pin, << >>, TRUE)
GpioSetInactive(pin) == Ev("GpioSetInactive", pin, << >>, TRUE)

IsTransfer(e) == e.ev = "Transfer"

\* A response of the transport to one register access:
\*   cmd_ok  result of the command-phase transfer, fb the byte it returns,
\*   data_ok result of the data-phase transfer, data the bytes it returns.
FaultBytes == {FAULT_BYTE_COMER, 1}
\* Received register words (most significant byte first).  RxActive: as STATUS,
\* ACTIVE with M_COMF, 100 kHz base; as CFG_CHx, CDR, FMAIN_DIV4, HHF_EN.
\* RxBusy: as STATUS, ONCH=0xC0, M_OCP, 80 kHz base, pair modes, fault flags;
\* as CFG_CHx, VDR with SRC at FMAIN_DIV2, HIT time 100 periods.
RxActive == << 0, 4, 0, 1 >>
RxBusy == << 192, 65, 100, 168 >>
RxCases == { << FAULT_BYTE_COMER, RxActive >>, << 1, RxActive >>, << 1, RxBusy >> }
NoData == <<0, 0, 0, 0>>
Resp(c, f, d, x) == [cmd_ok |-> c, fb |-> f, data_ok |-> d, data |-> x]
WriteResponses ==
  {Resp(FALSE, 0, FALSE, NoData)}
    \cup {Resp(TRUE, f, d, NoData) : f \in FaultBytes, d \in BOOLEAN}
ReadResponses ==
  {Resp(FALSE, 0, FALSE, NoData)}
    \cup {Resp(TRUE, f, FALSE, NoData) : f \in FaultBytes}
    \cup {Resp(TRUE, c[1], TRUE, c[2]) : c \in RxCases}

\* placeholder where the transport is not called
NoResp == Resp(FALSE, 0, FALSE, NoData)

OkOrComm(ok) == IF ok THEN "OK" ELSE "COMMUNICATION_ERROR"

\* Result of a protocol function: status, transport events, new last fault
\* byte, value read (0 when none).
PRes(st, ev, lfb, v) == [status |-> st, ev |-> ev, lfb |-> lfb, value |-> v]

\* (variant: CMD is left asserted when the command transfer fails)
writeCommandRegisterCmdHeld(bank, is_write, mode8, r, lfb) ==
  PRes(OkOrComm(r.cmd_ok),
       << GpioSetActive("CMD"),
          Transfer(<< CommandReg_build(bank, is_write, mode8) >>, << r.fb >>, r.cmd_ok) >>
         \o (IF r.cmd_ok THEN << GpioSetInactive("CMD") >> ELSE << >>),
       IF r.cmd_ok THEN r.fb ELSE lfb, 0)

writeCommandRegister(bank, is_write, mode8, r, lfb) ==
  PRes(OkOrComm(r.cmd_ok),
       << GpioSetActive("CMD"),
          Transfer(<< CommandReg_build(bank, is_write, mode8) >>, << r.fb >>, r.cmd_ok),
          GpioSetInactive("CMD") >>,
       IF r.cmd_ok THEN r.fb ELSE lfb, 0)

\* (variant: the most significant byte is transmitted first)
writeData32MsbFirst(value, r) ==
  PRes(OkOrComm(r.data_ok),
       << Transfer(<< ByteOf(value, 3), ByteOf(value, 2),
                      ByteOf(value, 1), ByteOf(value, 0) >>, << >>, r.data_ok) >>,
       0, 0)

writeData32(value, r) ==
  PRes(OkOrComm(r.data_ok),
       << Transfer(<< ByteOf(value, 0), ByteOf(value, 1),
                      ByteOf(value, 2), ByteOf(value, 3) >>, << >>, r.data_ok) >>,
       0, 0)

readData32WithTx(tx, r) ==
  PRes(OkOrComm(r.data_ok),
       << Transfer(tx, r.data, r.data_ok) >>, 0,
       IF r.data_ok
       THEN Word(r.data[1], r.data[2], r.data[3], r.data[4])
       ELSE 0)

readData32(r) == readData32WithTx(<<0, 0, 0, 0>>, r)

writeData8(value, r) ==
  PRes(OkOrComm(r.data_ok), << Transfer(<< value >>, << >>, r.data_ok) >>, 0, 0)

readData8(r) ==
  PRes(OkOrComm(r.data_ok), << Transfer(<< 0 >>, << r.data[1] >>, r.data_ok) >>, 0,
       IF r.data_ok THEN r.data[1] ELSE 0)

\* (variant: the access is made again when its command phase returned 0x04)
TwoPhaseRetryOnComer(c, d) ==
  IF c.status # "OK" THEN c
  ELSE IF c.lfb = FAULT_BYTE_COMER
  THEN PRes(d.status, c.ev \o d.ev \o c.ev \o d.ev, c.lfb, d.value)
  ELSE PRes(d.status, c.ev \o d.ev, c.lfb, d.value)

\* command phase, then the data phase unless the command phase failed
TwoPhase(c, d) ==
  IF c.status # "OK" THEN c ELSE PRes(d.status, c.ev \o d.ev, c.lfb, d.value)

writeReg32(bank, value, r, lfb) ==
  TwoPhase(writeCommandRegister(bank, TRUE, FALSE, r, lfb), writeData32(value, r))

\* (variant: the data phase is made even though the command phase failed)
readReg32DataAlways(bank, r, lfb) ==
  LET c == writeCommandRegister(bank, FALSE, FALSE, r, lfb)
      d == readData32(r)
  IN PRes(IF c.status # "OK" THEN c.status ELSE d.status, c.ev \o d.ev, c.lfb,
          d.value)

readReg32(bank, r, lfb) ==
  TwoPhase(writeCommandRegister(bank, FALSE, FALSE, r, lfb), readData32(r))

writeReg8(bank, value, r, lfb) ==
  TwoPhase(writeCommandRegister(bank, TRUE, TRUE, r, lfb), writeData8(value, r))

readReg8(bank, r, lfb) ==
  TwoPhase(writeCommandRegister(bank, FALSE, TRUE, r, lfb), readData8(r))

\* ------------------------------------------------------------------------
\* State
\* ------------------------------------------------------------------------
VARIABLES
  initialized,       \* MAX22200::initialized_
  last_fault_byte,   \* MAX22200::last_fault_byte_
  cached_status,     \* MAX22200::cached_status_
  board_config,      \* MAX22200::board_config_
  enable_pin,        \* level of CtrlPin::ENABLE as last driven (TRUE = ACTIVE)
  cmd_pin,           \* level of CtrlPin::CMD as last driven
  pc,                \* "idle", or the position inside the loop of an operation
  attempt,           \* Initialize: loop counter
  status,            \* Initialize: the local StatusConfig
  op,                \* the public operation called last (or in progress)
  args,              \* its arguments
  ret,               \* its DriverStatus ("PENDING" while Initialize runs)
  trace,             \* transport events of that call, in order
  pre,               \* stored driver state when that call began
  comer_attempts,    \* Initialize: attempts whose command phase returned 0x04
  ch,                \* ConfigureAllChannels, SetDpmEnabledChannels: loop counter
  dev_status,        \* STATUS contents last exchanged with the device
  init_ok_since_deinit, \* an Initialize returned OK, no Deinitialize since
  statistics,        \* MAX22200::statistics_ counters, counted from the call's start
  output,            \* output parameter of that call as the caller finds it
  fault_callback,    \* MAX22200::fault_callback_ is not null
  state_callback     \* MAX22200::state_callback_ is not null

vars == << initialized, last_fault_byte, cached_status, board_config,
           enable_pin, cmd_pin, pc, attempt, status, op, args, ret, trace,
           pre, comer_attempts, ch, dev_status, init_ok_since_deinit,
           statistics, output, fault_callback, state_callback >>

\* DriverStatistics(): the counters updateStatistics touches
NoStat == [total_transfers |-> 0, failed_transfers |-> 0]

updateStatistics(s, success) ==
  [total_transfers |-> s.total_transfers + 1,
   failed_transfers |-> s.failed_transfers + (IF success THEN 0 ELSE 1)]

\* the call has no output parameter; a call that has one leaves
\* << type name, value >>, the value being what the caller finds in it
NoOut == << >>

DefaultBoardConfig ==
  [full_scale_current_ma |-> 1000, max_current_ma |-> 0, max_duty_percent |-> 0]

Stored ==
  [initialized |-> initialized, cached_status |-> cached_status,
   board_config |-> board_config]

\* ------------------------------------------------------------------------
\* Observers of the transport events
\* ------------------------------------------------------------------------
\* level of a pin after the events ev (the events are folded half by half,
\* which keeps the evaluation shallow for long event sequences)
RECURSIVE PinAfter(_, _, _)
PinAfter(level, ev, pin) ==
  IF ev = << >> THEN level
  ELSE IF Len(ev) = 1
  THEN LET e == ev[1]
       IN IF e.ev = "GpioSetActive" /\ e.arg = pin THEN TRUE
          ELSE IF e.ev = "GpioSetInactive" /\ e.arg = pin THEN FALSE
          ELSE level
  ELSE LET h == Len(ev) \div 2
       IN PinAfter(PinAfter(level, SubSeq(ev, 1, h), pin),
                   SubSeq(ev, h + 1, Len(ev)), pin)

Transfers(ev) == SelectSeq(ev, IsTransfer)

\* some command-phase transfer of ev (a successful 1-byte transfer made right
\* after CMD was asserted) returned the fault byte 0x04
SawComer(ev) ==
  \E i \in 2 .. Len(ev) :
    /\ ev[i - 1] = GpioSetActive("CMD")
    /\ IsTransfer(ev[i])
    /\ ev[i].ok
    /\ ev[i].rx = << FAULT_BYTE_COMER >>

UnknownDevStatus == [known |-> FALSE, onch |-> 0, freqm_known |-> FALSE, freqm |-> FALSE]

\* STATUS contents carried by one successful data-phase transfer that follows
\* the command byte cb
DevAfterData(dev, cb, e) ==
  IF Field(cb, A_BNK_POS, 4) # RegBank_STATUS THEN dev
  ELSE IF cb >= RBW_WRITE
       THEN IF Len(e.arg) = 4
            THEN [known |-> TRUE, onch |-> e.arg[4],
                  freqm_known |-> TRUE, freqm |-> BitSet(e.arg[3], 0)]
            ELSE [dev EXCEPT !.known = TRUE, !.onch = e.arg[1]]
       ELSE IF Len(e.rx) = 4
            THEN [known |-> TRUE, onch |-> e.rx[1],
                  freqm_known |-> TRUE, freqm |-> BitSet(e.rx[2], 0)]
            ELSE [dev EXCEPT !.known = TRUE, !.onch = e.rx[1]]

\* The device side of the bus after one event.  s.dev: STATUS contents
\* exchanged so far, s.cb: the command byte in force (-1 when none), s.cmd:
\* level of the CMD pin
DevStep(s, e) ==
  CASE e.ev = "GpioSetActive" /\ e.arg = "CMD" -> [s EXCEPT !.cmd = TRUE]
    [] e.ev = "GpioSetInactive" /\ e.arg = "CMD" -> [s EXCEPT !.cmd = FALSE]
    [] e.ev = "Transfer" /\ s.cmd ->
         [s EXCEPT !.cb = IF e.ok THEN e.arg[1] ELSE -1]
    [] e.ev = "Transfer" /\ ~s.cmd /\ e.ok /\ s.cb # -1 ->
         [s EXCEPT !.dev = DevAfterData(s.dev, s.cb, e)]
    [] OTHER -> s

\* the events are folded half by half, as in PinAfter
RECURSIVE DevScan(_, _)
DevScan(s, ev) ==
  IF ev = << >> THEN s
  ELSE IF Len(ev) = 1 THEN DevStep(s, ev[1])
  ELSE LET h == Len(ev) \div 2
       IN DevScan(DevScan(s, SubSeq(ev, 1, h)), SubSeq(ev, h + 1, Len(ev)))

DevAfter(dev, cb, cmd, ev) == DevScan([dev |-> dev, cb |-> cb, cmd |-> cmd], ev).dev

\* ------------------------------------------------------------------------
\* Init: the driver as constructed (either constructor), transport untouched
\* ------------------------------------------------------------------------
BoardArgs ==
  { DefaultBoardConfig,
    [full_scale_current_ma |-> 0, max_current_ma |-> 0, max_duty_percent |-> 0] }

Init ==
  /\ initialized = FALSE
  /\ last_fault_byte = 255
  /\ cached_status = DefaultStatusConfig
  /\ board_config = DefaultBoardConfig
  /\ enable_pin = FALSE
  /\ cmd_pin = FALSE
  /\ pc = "idle"
  /\ attempt = 0
  /\ status = DefaultStatusConfig
  /\ op = "constructor"
  /\ args = << >>
  /\ ret = "OK"
  /\ trace = << >>
  /\ pre = [initialized |-> FALSE, cached_status |-> DefaultStatusConfig,
            board_config |-> DefaultBoardConfig]
  /\ comer_attempts = {}
  /\ ch = 0
  /\ dev_status = UnknownDevStatus
  /\ init_ok_since_deinit = FALSE
  /\ statistics = NoStat
  /\ output = NoOut
  /\ fault_callback = FALSE
  /\ state_callback = FALSE

\* A public operation that runs to completion in one step: it is called with
\* the driver idle, returns st after the transport events ev and leaves the
\* stored state (lfb, cs, ini, bc), the statistics updates su and the output
\* parameter ou.
CallWith(o, a, st, ev, lfb, cs, ini, bc, su, ou) ==
  /\ pc = "idle"
  /\ pc' = "idle"
  /\ op' = o
  /\ args' = a
  /\ ret' = st
  /\ trace' = ev
  /\ pre' = Stored
  /\ last_fault_byte' = lfb
  /\ cached_status' = cs
  /\ initialized' = ini
  /\ board_config' = bc
  /\ enable_pin' = PinAfter(enable_pin, ev, "ENABLE")
  /\ cmd_pin' = PinAfter(cmd_pin, ev, "CMD")
  /\ dev_status' = DevAfter(dev_status, -1, cmd_pin, ev)
  /\ attempt' = 0
  /\ status' = DefaultStatusConfig
  /\ comer_attempts' = {}
  /\ ch' = 0
  /\ init_ok_since_deinit' =
       IF o = "Deinitialize" THEN FALSE
       ELSE IF o = "Initialize" /\ st = "OK" THEN TRUE
       ELSE init_ok_since_deinit
  /\ statistics' = su
  /\ output' = ou
  /\ UNCHANGED << fault_callback, state_callback >>

\* an operation that neither calls updateStatistics nor has an output parameter
Call(o, a, st, ev, lfb, cs, ini, bc) ==
  CallWith(o, a, st, ev, lfb, cs, ini, bc, NoStat, NoOut)

\* ------------------------------------------------------------------------
\* Initialize
\* ------------------------------------------------------------------------
SpiInitialize(ok) == Ev("Initialize", << >>, << >>, ok)
SpiConfigure(ok) == Ev("Configure", << MAX_SPI_FREQ_STANDALONE_, 0, TRUE >>, << >>, ok)
DelayUs(us) == Ev("DelayUs", us, << >>, TRUE)

\* One step of Initialize: appends the events ev and moves to newpc; a step
\* that returns has newpc = "idle" and st # "PENDING".
InitStep(ev, lfb, cs, ini, newpc, newattempt, newstatus, st) ==
  /\ pc' = newpc
  /\ op' = "Initialize"
  /\ args' = << >>
  /\ ret' = st
  /\ trace' = trace \o ev
  /\ pre' = pre
  /\ last_fault_byte' = lfb
  /\ cached_status' = cs
  /\ initialized' = ini
  /\ board_config' = board_config
  /\ enable_pin' = PinAfter(enable_pin, ev, "ENABLE")
  /\ cmd_pin' = PinAfter(cmd_pin, ev, "CMD")
  /\ dev_status' = DevAfter(dev_status, -1, cmd_pin, ev)
  /\ attempt' = newattempt
  /\ status' = newstatus
  /\ comer_attempts' = (IF SawComer(ev) THEN comer_attempts \cup {attempt}
                        ELSE comer_attempts)
  /\ init_ok_since_deinit' = (IF st = "OK" THEN TRUE ELSE init_ok_since_deinit)
  /\ statistics' = (IF st = "PENDING" THEN statistics
                    ELSE updateStatistics(statistics, st = "OK"))
  /\ UNCHANGED << ch, output, fault_callback, state_callback >>

\* Steps 0 and 1: already initialized, or transport set-up, ENABLE, delay
\* (variant: ENABLE is asserted before the transport is set up)
InitPowerUpEnableFirst ==
  << GpioSetActive("ENABLE"), DelayUs(PowerUpDelayUs),
     SpiInitialize(TRUE), SpiConfigure(TRUE) >>

\* Steps 0 and 1 when both transport calls succeed: Initialize(),
\* Configure(10 MHz, mode 0, MSB first), ENABLE high, power-up delay
InitPowerUp ==
  << SpiInitialize(TRUE), SpiConfigure(TRUE),
     GpioSetActive("ENABLE"), DelayUs(PowerUpDelayUs) >>

InitializeBegin ==
  /\ pc = "idle"
  /\ IF initialized
     THEN Call("Initialize", << >>, "OK", << >>, last_fault_byte, cached_status,
               initialized, board_config)
     ELSE \E init_ok, cfg_ok \in BOOLEAN :
            IF ~init_ok
            THEN /\ ~cfg_ok
                 /\ CallWith("Initialize", << >>, "INITIALIZATION_ERROR",
                             << SpiInitialize(FALSE) >>, last_fault_byte,
                             cached_status, initialized, board_config,
                             updateStatistics(NoStat, FALSE), NoOut)
            ELSE IF ~cfg_ok
            THEN CallWith("Initialize", << >>, "INITIALIZATION_ERROR",
                          << SpiInitialize(TRUE), SpiConfigure(FALSE) >>,
                          last_fault_byte, cached_status, initialized, board_config,
                          updateStatistics(NoStat, FALSE), NoOut)
            ELSE /\ pre' = Stored
                 /\ pc' = "init_read1"
                 /\ op' = "Initialize"
                 /\ args' = << >>
                 /\ ret' = "PENDING"
                 /\ trace' = InitPowerUp
                 /\ enable_pin' = TRUE
                 /\ attempt' = 0
                 /\ status' = DefaultStatusConfig
                 /\ comer_attempts' = {}
                 /\ ch' = 0
                 /\ statistics' = NoStat
                 /\ output' = NoOut
                 /\ UNCHANGED << initialized, last_fault_byte, cached_status,
                                 board_config, cmd_pin, dev_status,
                                 init_ok_since_deinit, fault_callback,
                                 state_callback >>

\* (variant: the fault byte is never examined)
IsComerNever(lfb) == FALSE

\* GetLastFaultByte() == StatusReg::FAULT_BYTE_COMER
IsComer(lfb) == lfb = FAULT_BYTE_COMER

\* (variant: the abort path returns without driving ENABLE low)
InitAbortKeepsEnable(result) == [ev |-> << >>, status |-> result]

\* a transfer failed inside the loop: ENABLE low, return the result
InitAbort(result) ==
  [ev |-> << GpioSetInactive("ENABLE") >>, status |-> result]

\* (variant: the exhausted path returns without driving ENABLE low)
InitExhaustedKeepsEnable == [ev |-> << >>, status |-> "COMMUNICATION_ERROR"]

\* the loop ran out of attempts: ENABLE low, COMMUNICATION_ERROR
InitExhausted ==
  [ev |-> << GpioSetInactive("ENABLE") >>, status |-> "COMMUNICATION_ERROR"]

\* `continue`: ++attempt, then the loop test
InitContinue(ev, lfb, cs, st_local) ==
  IF attempt + 1 < kMaxInitRetries
  THEN InitStep(ev, lfb, cs, initialized, "init_read1", attempt + 1, st_local,
                "PENDING")
  ELSE InitStep(ev \o InitExhausted.ev, lfb, cs, initialized, "idle", attempt + 1,
                st_local, InitExhausted.status)

\* ReadStatus: on success decode into the caller's struct and refresh the cache
ReadStatusRes(r, lfb, cs, out) ==
  LET p == readReg32(RegBank_STATUS, r, lfb)
  IN [status |-> p.status, ev |-> p.ev, lfb |-> p.lfb,
      out |-> IF p.status = "OK" THEN StatusFromRegister(p.value) ELSE out,
      cs |-> IF p.status = "OK" THEN StatusFromRegister(p.value) ELSE cs]

\* WriteStatus: on success the written struct becomes the cache
WriteStatusRes(s, r, lfb, cs) ==
  LET p == writeReg32(RegBank_STATUS, StatusToRegister(s), r, lfb)
  IN [status |-> p.status, ev |-> p.ev, lfb |-> p.lfb,
      cs |-> IF p.status = "OK" THEN s ELSE cs]

\* Step 2: read STATUS
InitReadStatus1 ==
  /\ pc = "init_read1"
  /\ \E r \in ReadResponses :
       LET q == ReadStatusRes(r, last_fault_byte, cached_status, status)
       IN IF q.status # "OK"
          THEN InitStep(q.ev \o InitAbort(q.status).ev, q.lfb, q.cs, initialized,
                        "idle", attempt, q.out, InitAbort(q.status).status)
          ELSE IF IsComer(q.lfb)
          THEN InitContinue(q.ev, q.lfb, q.cs, q.out)
          ELSE InitStep(q.ev, q.lfb, q.cs, initialized, "init_write", attempt,
                        q.out, "PENDING")

\* (variant: the channel-on mask read from the device is written back)
InitStatusToWriteKeepsOnch(s) ==
  [s EXCEPT !.active = TRUE, !.communication_error_masked = TRUE]

\* the STATUS value Initialize writes: the value read, with ACTIVE=1, ONCH=0, M_COMF=1
InitStatusToWrite(s) ==
  [s EXCEPT !.active = TRUE, !.channels_on_mask = 0,
            !.communication_error_masked = TRUE]

\* (variant: initialized_ is set as soon as the status write succeeded)
InitWriteStatusEarlyReady ==
  /\ pc = "init_write"
  /\ \E r \in WriteResponses :
       LET s == InitStatusToWrite(status)
           q == WriteStatusRes(s, r, last_fault_byte, cached_status)
       IN IF q.status # "OK"
          THEN InitStep(q.ev \o InitAbort(q.status).ev, q.lfb, q.cs, initialized,
                        "idle", attempt, s, InitAbort(q.status).status)
          ELSE IF IsComer(q.lfb)
          THEN InitContinue(q.ev, q.lfb, q.cs, s)
          ELSE InitStep(q.ev, q.lfb, s, TRUE, "init_read2", attempt, s, "PENDING")

\* Step 3: write STATUS
InitWriteStatus ==
  /\ pc = "init_write"
  /\ \E r \in WriteResponses :
       LET s == InitStatusToWrite(status)
           q == WriteStatusRes(s, r, last_fault_byte, cached_status)
       IN IF q.status # "OK"
          THEN InitStep(q.ev \o InitAbort(q.status).ev, q.lfb, q.cs, initialized,
                        "idle", attempt, s, InitAbort(q.status).status)
          ELSE IF IsComer(q.lfb)
          THEN InitContinue(q.ev, q.lfb, q.cs, s)
          ELSE InitStep(q.ev, q.lfb, s, initialized, "init_read2", attempt, s,
                        "PENDING")

\* Step 4: read STATUS again, cache it, become initialized
InitReadStatus2 ==
  /\ pc = "init_read2"
  /\ \E r \in ReadResponses :
       LET q == ReadStatusRes(r, last_fault_byte, cached_status, status)
       IN IF q.status # "OK"
          THEN InitStep(q.ev \o InitAbort(q.status).ev, q.lfb, q.cs, initialized,
                        "idle", attempt, q.out, InitAbort(q.status).status)
          ELSE IF IsComer(q.lfb)
          THEN InitContinue(q.ev, q.lfb, q.cs, q.out)
          ELSE InitStep(q.ev, q.lfb, q.out, TRUE, "idle", attempt, q.out, "OK")

\* ------------------------------------------------------------------------
\* Deinitialize and the channel-on fast path
\* ------------------------------------------------------------------------
\* Result of an internal driver function: status, events, last fault byte, cache
DRes(st, ev, lfb, cs) == [status |-> st, ev |-> ev, lfb |-> lfb, cs |-> cs]

\* (variant: the mask is sent with a full 32-bit STATUS write)
SetChannelsOnResFullWrite(channel_mask, r, lfb, cs) ==
  LET p == writeReg32(RegBank_STATUS,
                      StatusToRegister([cs EXCEPT !.channels_on_mask = channel_mask]),
                      r, lfb)
  IN DRes(p.status, p.ev, p.lfb, [cs EXCEPT !.channels_on_mask = channel_mask])

SetChannelsOnRes(channel_mask, r, lfb, cs) ==
  LET p == writeReg8(RegBank_STATUS, channel_mask, r, lfb)
  IN DRes(p.status, p.ev, p.lfb, [cs EXCEPT !.channels_on_mask = channel_mask])

SetAllChannelsEnabledRes(enable, r, lfb, cs) ==
  SetChannelsOnRes(IF enable THEN 255 ELSE 0, r, lfb, cs)

SetChannelEnabledMask(mask, channel, enable) ==
  IF enable THEN OrBit(mask, channel) ELSE ClearBit(mask, channel)

Unchanged(o, a, st) ==
  Call(o, a, st, << >>, last_fault_byte, cached_status, initialized, board_config)

\* updateStatistics(false); return DriverStatus::INVALID_PARAMETER;
Rejected(o, a) ==
  CallWith(o, a, "INVALID_PARAMETER", << >>, last_fault_byte, cached_status,
           initialized, board_config, updateStatistics(NoStat, FALSE), NoOut)

\* (variant: ENABLE is driven low before the two writes)
DeinitEventsEnableFirst(disable_ev, write_ev) ==
  << GpioSetInactive("ENABLE") >> \o disable_ev \o write_ev

\* transport events of the shutdown sequence: DisableAllChannels(),
\* WriteStatus(cached_status_), then ENABLE low
DeinitEvents(disable_ev, write_ev) ==
  disable_ev \o write_ev \o << GpioSetInactive("ENABLE") >>

\* (variant: the shutdown sequence runs whether or not the driver is initialized)
DeinitializeNoGuard ==
  \E r1, r2 \in WriteResponses :
    LET d == SetAllChannelsEnabledRes(FALSE, r1, last_fault_byte, cached_status)
        s == [d.cs EXCEPT !.active = FALSE, !.channels_on_mask = 0]
        w == WriteStatusRes(s, r2, d.lfb, s)
    IN CallWith("Deinitialize", << >>, "OK",
                DeinitEvents(d.ev, w.ev),
                w.lfb, w.cs, FALSE, board_config,
                updateStatistics(updateStatistics(NoStat, d.status = "OK"), TRUE),
                NoOut)

Deinitialize ==
  IF ~initialized
  THEN Unchanged("Deinitialize", << >>, "OK")
  ELSE \E r1, r2 \in WriteResponses :
         LET d == SetAllChannelsEnabledRes(FALSE, r1, last_fault_byte, cached_status)
             s == [d.cs EXCEPT !.active = FALSE, !.channels_on_mask = 0]
             w == WriteStatusRes(s, r2, d.lfb, s)
         IN CallWith("Deinitialize", << >>, "OK",
                     DeinitEvents(d.ev, w.ev),
                     w.lfb, w.cs, FALSE, board_config,
                     updateStatistics(updateStatistics(NoStat, d.status = "OK"), TRUE),
                     NoOut)

ChannelArgs == {7} \cup (NUM_CHANNELS_ .. MaxChannelArg)
PairArgs == {3} \cup (4 .. MaxPairArg)
MaskArgs == {64}

SetChannelEnabledOn(o, enable, channels) ==
  \E channel \in channels :
    IF ~IsValidChannel(channel)
    THEN Rejected(o, << channel >>)
    ELSE \E r \in WriteResponses :
           LET d == SetChannelsOnRes(
                      SetChannelEnabledMask(cached_status.channels_on_mask, channel, enable),
                      r, last_fault_byte, cached_status)
           IN CallWith(o, << channel >>, d.status, d.ev, d.lfb, d.cs, initialized,
                       board_config, updateStatistics(NoStat, d.status = "OK"), NoOut)

SetChannelEnabled(o, enable) == SetChannelEnabledOn(o, enable, ChannelArgs)

\* two valid channels, for sequences of calls on different channels
TwoChannelArgs == { 0, 7 }

EnableChannel == SetChannelEnabled("EnableChannel", TRUE)
DisableChannel == SetChannelEnabled("DisableChannel", FALSE)

SetAllChannelsEnabled(o, enable) ==
  \E r \in WriteResponses :
    LET d == SetAllChannelsEnabledRes(enable, r, last_fault_byte, cached_status)
    IN CallWith(o, << >>, d.status, d.ev, d.lfb, d.cs, initialized, board_config,
                updateStatistics(NoStat, d.status = "OK"), NoOut)

EnableAllChannels == SetAllChannelsEnabled("EnableAllChannels", TRUE)
DisableAllChannels == SetAllChannelsEnabled("DisableAllChannels", FALSE)

SetChannelsOn ==
  \E channel_mask \in MaskArgs, r \in WriteResponses :
    LET d == SetChannelsOnRes(channel_mask, r, last_fault_byte, cached_status)
    IN CallWith("SetChannelsOn", << channel_mask >>, d.status, d.ev, d.lfb, d.cs,
                initialized, board_config,
                updateStatistics(NoStat, d.status = "OK"), NoOut)

FullBridgeStates == {"HiZ", "Forward", "Reverse", "Brake"}
FullBridgeArgs == {"Forward", "Reverse"}
FullBridgeBits(state) ==
  CASE state = "HiZ" -> 0
    [] state = "Forward" -> 1
    [] state = "Reverse" -> 2
    [] state = "Brake" -> 3
    [] OTHER -> 0

\* (variant: the bits of the other pairs are cleared)
FullBridgeMaskOnlyPair(mask, pair_index, state) ==
  FullBridgeBits(state) * Pow2(pair_index * 2)

\* (mask & ~(3 << shift)) | (bits << shift)
FullBridgeMask(mask, pair_index, state) ==
  LET shift == pair_index * 2
  IN mask - Field(mask, shift, 2) * Pow2(shift) + FullBridgeBits(state) * Pow2(shift)

SetFullBridgeStateOn(pairs, states, responses) ==
  \E pair_index \in pairs, state \in states :
    IF pair_index > 3
    THEN Rejected("SetFullBridgeState", << pair_index, state >>)
    ELSE \E r \in responses :
           LET d == SetChannelsOnRes(
                      FullBridgeMask(cached_status.channels_on_mask, pair_index, state),
                      r, last_fault_byte, cached_status)
           IN CallWith("SetFullBridgeState", << pair_index, state >>, d.status,
                       d.ev, d.lfb, d.cs, initialized, board_config,
                       updateStatistics(NoStat, d.status = "OK"), NoOut)

SetFullBridgeState == SetFullBridgeStateOn(PairArgs, FullBridgeArgs, WriteResponses)

\* ------------------------------------------------------------------------
\* STATUS register operations
\* ------------------------------------------------------------------------
StatusArgs == { StatusFromRegister(Word(0, 5, 0, 1)) }

\* the caller's StatusConfig before ReadStatus(status) is called
StatusOutArgs == { StatusFromRegister(Word(3, 0, 0, 0)) }

ReadStatus ==
  \E prior \in StatusOutArgs, r \in ReadResponses :
    LET q == ReadStatusRes(r, last_fault_byte, cached_status, prior)
    IN CallWith("ReadStatus", << prior >>, q.status, q.ev, q.lfb, q.cs, initialized,
                board_config, NoStat, << "StatusConfig", q.out >>)

WriteStatus ==
  \E s \in StatusArgs, r \in WriteResponses :
    LET q == WriteStatusRes(s, r, last_fault_byte, cached_status)
    IN Call("WriteStatus", << s >>, q.status, q.ev, q.lfb, q.cs, initialized,
            board_config)

\* ------------------------------------------------------------------------
\* Raw register access
\* ------------------------------------------------------------------------
BankArgs == {RegBank_STATUS}
\* every register bank, 0x00 (STATUS) .. 0x0A (CFG_DPM)
AllBankArgs == RegBank_STATUS .. RegBank_CFG_DPM
RawWordArgs == { Word(5, 5, 0, 1) }
RawByteArgs == { 9 }

ReadRegister32On(banks) ==
  \E bank \in banks, prior \in RawWordArgs, r \in ReadResponses :
    LET p == readReg32(bank, r, last_fault_byte)
    IN CallWith("ReadRegister32", << bank, prior >>, p.status, p.ev, p.lfb,
                cached_status, initialized, board_config, NoStat,
                << "uint32_t", IF p.status = "OK" THEN p.value ELSE prior >>)

ReadRegister32 == ReadRegister32On(BankArgs)

WriteRegister32On(banks) ==
  \E bank \in banks, value \in RawWordArgs, r \in WriteResponses :
    LET p == writeReg32(bank, value, r, last_fault_byte)
    IN Call("WriteRegister32", << bank, value >>, p.status, p.ev, p.lfb,
            cached_status, initialized, board_config)

WriteRegister32 == WriteRegister32On(BankArgs)

ReadRegister8On(banks) ==
  \E bank \in banks, prior \in RawByteArgs, r \in ReadResponses :
    LET p == readReg8(bank, r, last_fault_byte)
    IN CallWith("ReadRegister8", << bank, prior >>, p.status, p.ev, p.lfb,
                cached_status, initialized, board_config, NoStat,
                << "uint8_t", IF p.status = "OK" THEN p.value ELSE prior >>)

ReadRegister8 == ReadRegister8On(BankArgs)

WriteRegister8On(banks) ==
  \E bank \in banks, value \in RawByteArgs, r \in WriteResponses :
    LET p == writeReg8(bank, value, r, last_fault_byte)
    IN Call("WriteRegister8", << bank, value >>, p.status, p.ev, p.lfb,
            cached_status, initialized, board_config)

WriteRegister8 == WriteRegister8On(BankArgs)

\* ------------------------------------------------------------------------
\* Board configuration
\* ------------------------------------------------------------------------
SetBoardConfigOn(boards) ==
  \E config \in boards :
    Call("SetBoardConfig", << config >>, "OK", << >>, last_fault_byte,
         cached_status, initialized, config)

SetBoardConfig == SetBoardConfigOn(BoardArgs)

\* ------------------------------------------------------------------------
\* Channel configuration
\* ------------------------------------------------------------------------
\* (variant: the full-scale-current test is missing)
ConfigureChannelRejectsNoIfsCheck(channel, config, cs, bc) ==
  \/ ~IsValidChannel(channel)
  \/ /\ config.slew_rate_control_enabled
     /\ getChopFreqKhz(cs.master_clock_80khz, config.chop_freq) >= 50

\* the three rejections made before any bus access
ConfigureChannelRejects(channel, config, cs, bc) ==
  \/ ~IsValidChannel(channel)
  \/ config.drive_mode = "CDR" /\ bc.full_scale_current_ma = 0
  \/ /\ config.slew_rate_control_enabled
     /\ getChopFreqKhz(cs.master_clock_80khz, config.chop_freq) >= 50

ConfigureChannelRes(channel, config, r, lfb, cs, bc) ==
  IF ConfigureChannelRejects(channel, config, cs, bc)
  THEN PRes("INVALID_PARAMETER", << >>, lfb, 0)
  ELSE writeReg32(getChannelCfgBank(channel),
                  ChannelToRegister(config, bc.full_scale_current_ma,
                                    cs.master_clock_80khz),
                  r, lfb)

\* the result p of readReg32 with its value decoded by fromRegister;
\* DefaultChannelConfig when nothing was read
DecodedConfig(p, cs, bc) ==
  PRes(p.status, p.ev, p.lfb,
       IF p.status = "OK"
       THEN ChannelFromRegister(p.value, bc.full_scale_current_ma,
                                cs.master_clock_80khz)
       ELSE DefaultChannelConfig)

GetChannelConfigRes(channel, r, lfb, cs, bc) ==
  IF ~IsValidChannel(channel)
  THEN PRes("INVALID_PARAMETER", << >>, lfb, DefaultChannelConfig)
  ELSE DecodedConfig(readReg32(getChannelCfgBank(channel), r, lfb), cs, bc)

ConfigArgs ==
  { [DefaultChannelConfig EXCEPT !.drive_mode = "CDR",
       !.hit_setpoint = 500 * SetpointScale, !.hold_setpoint = 250 * SetpointScale,
       !.hit_time_ms = 10 * TimeScale],
    [DefaultChannelConfig EXCEPT !.drive_mode = "VDR", !.chop_freq = 2,
       !.slew_rate_control_enabled = TRUE,
       !.hit_setpoint = 50 * SetpointScale, !.hold_setpoint = 25 * SetpointScale,
       !.hit_time_ms = 10 * TimeScale] }

\* return ConfigureChannel(channel, config) as the one bus access of operation
\* o called with arguments a: c is its result
ConfigureDone(o, a, c) ==
  CallWith(o, a, c.status, c.ev, c.lfb, cached_status, initialized, board_config,
           updateStatistics(NoStat, c.status = "OK"), NoOut)

ConfigureWith(o, a, channel, config) ==
  \E r \in IF ConfigureChannelRejects(channel, config, cached_status, board_config)
           THEN {NoResp} ELSE WriteResponses :
    ConfigureDone(o, a, ConfigureChannelRes(channel, config, r, last_fault_byte,
                                            cached_status, board_config))

ConfigureChannelOn(configs) ==
  \E channel \in ChannelArgs, config \in configs :
    ConfigureWith("ConfigureChannel", << channel, config >>, channel, config)

ConfigureChannel == ConfigureChannelOn(ConfigArgs)

\* the caller's ChannelConfig before GetChannelConfig(channel, config) is called
ConfigOutArgs == { [DefaultChannelConfig EXCEPT !.chop_freq = 3] }

\* GetChannelConfig (or a getter built on it) returning with the result g: the
\* output parameter holds value on success and is left as it was otherwise
GetDone(o, a, g, type, value, prior) ==
  CallWith(o, a, g.status, g.ev, g.lfb, cached_status, initialized, board_config,
           updateStatistics(NoStat, g.status = "OK"),
           << type, IF g.status = "OK" THEN value ELSE prior >>)

GetChannelConfigDone(channel, prior, g) ==
  GetDone("GetChannelConfig", << channel, prior >>, g, "ChannelConfig", g.value,
          prior)

GetChannelConfig ==
  \E channel \in ChannelArgs, prior \in ConfigOutArgs :
  \E r \in IF IsValidChannel(channel) THEN ReadResponses ELSE {NoResp} :
    GetChannelConfigDone(channel, prior,
                         GetChannelConfigRes(channel, r, last_fault_byte,
                                             cached_status, board_config))

\* ------------------------------------------------------------------------
\* Convenience APIs
\* ------------------------------------------------------------------------
\* longest HIT time (in microseconds) that raw 254 represents at fCHOP
getMaxHitTimeMs(master_clock_80khz, cf) ==
  (254 * 40 * TimeScale) \div getChopFreqKhz(master_clock_80khz, cf)

\* a float argument: finite with value us (microseconds), or NaN / infinite;
\* 203.2 ms is the longest HIT time at 50 kHz
HitTimeArgs ==
  { [finite |-> FALSE, us |-> 0],
    [finite |-> TRUE, us |-> 300 * TimeScale],
    [finite |-> TRUE, us |-> 203200],
    [finite |-> TRUE, us |-> 203201] }

\* (variant: only the range test is made, a NaN or infinite duration passes)
HitTimeRejectsRangeOnly(ms, master_clock_80khz, cf) ==
  ms.finite /\ ms.us > 0 /\ ms.us > getMaxHitTimeMs(master_clock_80khz, cf)

\* !std::isfinite(ms), or ms > 0.0f && ms > getMaxHitTimeMs(...)
HitTimeRejects(ms, master_clock_80khz, cf) ==
  \/ ~ms.finite
  \/ ms.us > 0 /\ ms.us > getMaxHitTimeMs(master_clock_80khz, cf)

\* An operation o (arguments a) that has read the channel's configuration
\* (result g, status OK) ends with return ConfigureChannel(channel, cfg): c is
\* the result of that call
WriteBackDone(o, a, g, c) ==
  CallWith(o, a, c.status, g.ev \o c.ev, c.lfb, cached_status, initialized,
           board_config,
           updateStatistics(updateStatistics(NoStat, TRUE), c.status = "OK"),
           NoOut)

WriteBack(o, a, channel, g, cfg) ==
  \E r2 \in IF ConfigureChannelRejects(channel, cfg, cached_status, board_config)
            THEN {NoResp} ELSE WriteResponses :
    WriteBackDone(o, a, g, ConfigureChannelRes(channel, cfg, r2, g.lfb,
                                               cached_status, board_config))

\* the operation returns the failure of its GetChannelConfig call
ReadFailed(o, a, g) ==
  CallWith(o, a, g.status, g.ev, g.lfb, cached_status, initialized, board_config,
           updateStatistics(NoStat, FALSE), NoOut)

\* SetHitTimeMs after its GetChannelConfig call, which returned g
SetHitTimeMsAfterRead(channel, ms, g) ==
  IF g.status # "OK"
  THEN ReadFailed("SetHitTimeMs", << channel, ms >>, g)
  ELSE IF HitTimeRejects(ms, cached_status.master_clock_80khz, g.value.chop_freq)
  THEN CallWith("SetHitTimeMs", << channel, ms >>, "INVALID_PARAMETER", g.ev,
                g.lfb, cached_status, initialized, board_config,
                updateStatistics(updateStatistics(NoStat, TRUE), FALSE),
                NoOut)
  ELSE WriteBack("SetHitTimeMs", << channel, ms >>, channel, g,
                 [g.value EXCEPT !.hit_time_ms = ms.us])

SetHitTimeMs ==
  \E channel \in ChannelArgs, ms \in HitTimeArgs :
    IF ~IsValidChannel(channel)
    THEN Rejected("SetHitTimeMs", << channel, ms >>)
    ELSE \E r1 \in ReadResponses :
      SetHitTimeMsAfterRead(channel, ms,
                            GetChannelConfigRes(channel, r1, last_fault_byte,
                                                cached_status, board_config))

DefaultDutyLimits == [min_percent |-> 4, max_percent |-> 96]

\* static GetDutyLimits(master_clock_80khz, chop_freq, slew_rate_control_enabled)
GetDutyLimits(master_clock_80khz, chop_freq, slew_rate_control_enabled) ==
  LET fchop_khz == getChopFreqKhz(master_clock_80khz, chop_freq)
      top == fchop_khz = 100 \/ fchop_khz = 80
  IN IF chop_freq \notin 0 .. 3
     THEN [status |-> "INVALID_PARAMETER", limits |-> DefaultDutyLimits]
     ELSE IF slew_rate_control_enabled
     THEN IF top
          THEN [status |-> "INVALID_PARAMETER", limits |-> DefaultDutyLimits]
          ELSE [status |-> "OK", limits |-> [min_percent |-> 7, max_percent |-> 93]]
     ELSE IF top
          THEN [status |-> "OK", limits |-> [min_percent |-> 8, max_percent |-> 92]]
          ELSE [status |-> "OK", limits |-> [min_percent |-> 4, max_percent |-> 96]]

\* percent (in 1/127 percent) clamped to the board limit, then to the duty limits
ClampDuty(percent, bc, limits) ==
  LET p1 == IF bc.max_duty_percent > 0 /\ percent > bc.max_duty_percent * SetpointScale
            THEN bc.max_duty_percent * SetpointScale ELSE percent
      p2 == IF p1 < limits.min_percent * SetpointScale
            THEN limits.min_percent * SetpointScale ELSE p1
  IN IF p2 > limits.max_percent * SetpointScale
     THEN limits.max_percent * SetpointScale ELSE p2

DutyArgs == { 99 * SetpointScale }

\* SetHitDutyPercent (hit) or SetHoldDutyPercent (~hit) after its
\* GetChannelConfig call, which returned g, and its GetDutyLimits call, l
SetDutyPercentAfterRead(o, a, channel, percent, hit, g, l) ==
  IF g.status # "OK"
  THEN ReadFailed(o, a, g)
  ELSE IF l.status # "OK"
  THEN CallWith(o, a, l.status, g.ev, g.lfb, cached_status, initialized,
                board_config, updateStatistics(NoStat, TRUE), NoOut)
  ELSE WriteBack(o, a, channel, g,
                 IF hit
                 THEN [g.value EXCEPT
                         !.drive_mode = "VDR",
                         !.hit_setpoint = ClampDuty(percent, board_config, l.limits)]
                 ELSE [g.value EXCEPT
                         !.drive_mode = "VDR",
                         !.hold_setpoint = ClampDuty(percent, board_config, l.limits)])

\* the duty limits for the configuration read
DutyLimitsOf(g) ==
  GetDutyLimits(cached_status.master_clock_80khz, g.value.chop_freq,
                g.value.slew_rate_control_enabled)

SetDutyPercentRead(o, a, channel, percent, hit, g) ==
  SetDutyPercentAfterRead(o, a, channel, percent, hit, g, DutyLimitsOf(g))

\* SetHitDutyPercent (hit) and SetHoldDutyPercent (~hit): the same statements,
\* the first assigns config.hit_setpoint, the second config.hold_setpoint
SetDutyPercentOn(o, hit, percents) ==
  \E channel \in ChannelArgs, percent \in percents :
    IF ~IsValidChannel(channel)
    THEN Rejected(o, << channel, percent >>)
    ELSE \E r1 \in ReadResponses :
      SetDutyPercentRead(o, << channel, percent >>, channel, percent, hit,
                         GetChannelConfigRes(channel, r1, last_fault_byte,
                                             cached_status, board_config))

SetHitDutyPercent == SetDutyPercentOn("SetHitDutyPercent", TRUE, DutyArgs)

\* duty cycles in 1/127 percent: 2 % and 99 %
LimitDutyArgs == { 2 * SetpointScale, 99 * SetpointScale }

SetHoldDutyPercent == SetDutyPercentOn("SetHoldDutyPercent", FALSE, LimitDutyArgs)

\* ma clamped to the board's max_current_ma when one is set
ClampCurrent(ma, bc) ==
  IF bc.max_current_ma > 0 /\ ma > bc.max_current_ma THEN bc.max_current_ma ELSE ma

\* currents in whole milliamps
CurrentArgs == { 100, 600 }

\* SetHitCurrentMa (hit) or SetHoldCurrentMa (~hit) after its GetChannelConfig
\* call, which returned g; v is the clamped current in 1/127 mA
SetCurrentMaAfterRead(o, a, channel, v, hit, g) ==
  IF g.status # "OK"
  THEN ReadFailed(o, a, g)
  ELSE WriteBack(o, a, channel, g,
                 IF hit
                 THEN [g.value EXCEPT !.drive_mode = "CDR", !.hit_setpoint = v]
                 ELSE [g.value EXCEPT !.drive_mode = "CDR", !.hold_setpoint = v])

\* SetHitCurrentMa(channel, ma) (hit) or SetHoldCurrentMa(channel, ma) (~hit),
\* called as operation o with arguments a
SetCurrentMaCall(o, a, channel, ma, hit) ==
  IF ~IsValidChannel(channel) \/ board_config.full_scale_current_ma = 0
  THEN Rejected(o, a)
  ELSE \E r1 \in ReadResponses :
    SetCurrentMaAfterRead(o, a, channel,
                          ClampCurrent(ma, board_config) * SetpointScale, hit,
                          GetChannelConfigRes(channel, r1, last_fault_byte,
                                              cached_status, board_config))

SetCurrentMa(o, hit) ==
  \E channel \in ChannelArgs, ma \in CurrentArgs :
    SetCurrentMaCall(o, << channel, ma >>, channel, ma, hit)

SetHitCurrentMa == SetCurrentMa("SetHitCurrentMa", TRUE)
SetHoldCurrentMa == SetCurrentMa("SetHoldCurrentMa", FALSE)

\* currents in amperes, held in tenths of a milliamp: 100.4 mA and 600.5 mA
AmpsArgs == { 1004, 6005 }

\* SetHitCurrentA / SetHoldCurrentA: static_cast<uint32_t>(amps * 1000.0f + 0.5f)
SetCurrentA(o, hit) ==
  \E channel \in ChannelArgs, amps \in AmpsArgs :
    SetCurrentMaCall(o, << channel, amps >>, channel, (amps + 5) \div 10, hit)

SetHitCurrentA == SetCurrentA("SetHitCurrentA", TRUE)
SetHoldCurrentA == SetCurrentA("SetHoldCurrentA", FALSE)

\* percentages of the full-scale current in 1/127 percent: 50 % and 150 %
PercentArgs == { 50 * SetpointScale, 150 * SetpointScale }

\* percent clamped to 0 .. 100, then (percent / 100) * full scale + 0.5 truncated
PercentToMa(percent, ifs) ==
  LET p == IF percent < 0 THEN 0
           ELSE IF percent > 100 * SetpointScale THEN 100 * SetpointScale
           ELSE percent
  IN (2 * p * ifs + 100 * SetpointScale) \div (200 * SetpointScale)

\* SetHitCurrentPercent / SetHoldCurrentPercent
SetCurrentPercent(o, hit) ==
  \E channel \in ChannelArgs, percent \in PercentArgs :
    IF ~IsValidChannel(channel) \/ board_config.full_scale_current_ma = 0
    THEN Rejected(o, << channel, percent >>)
    ELSE SetCurrentMaCall(o, << channel, percent >>, channel,
                          PercentToMa(percent, board_config.full_scale_current_ma),
                          hit)

SetHitCurrentPercent == SetCurrentPercent("SetHitCurrentPercent", TRUE)
SetHoldCurrentPercent == SetCurrentPercent("SetHoldCurrentPercent", FALSE)

\* A getter of one value of a channel's configuration: the channel test (with
\* the full-scale test when needs_ifs), GetChannelConfig, then the output
\* parameter (prior before the call) set to Value(config) on success
GetChannelValueDone(o, a, type, prior, Value(_), g) ==
  GetDone(o, a, g, type, Value(g.value), prior)

GetChannelValue(o, needs_ifs, type, prior, Value(_)) ==
  \E channel \in ChannelArgs :
    IF \/ ~IsValidChannel(channel)
       \/ needs_ifs /\ board_config.full_scale_current_ma = 0
    THEN CallWith(o, << channel >>, "INVALID_PARAMETER", << >>, last_fault_byte,
                  cached_status, initialized, board_config,
                  updateStatistics(NoStat, FALSE), << type, prior >>)
    ELSE \E r \in ReadResponses :
      GetChannelValueDone(o, << channel >>, type, prior, Value,
                          GetChannelConfigRes(channel, r, last_fault_byte,
                                              cached_status, board_config))

\* static_cast<uint32_t>(setpoint + 0.5f)
RoundedMa(v) == (2 * v + SetpointScale) \div (2 * SetpointScale)

\* (setpoint / full scale) * 100, or 0 without a full scale
PercentOfFullScale(v) ==
  IF board_config.full_scale_current_ma > 0
  THEN (v * 100) \div board_config.full_scale_current_ma ELSE 0

HitMa(config) == RoundedMa(config.hit_setpoint)
HoldMa(config) == RoundedMa(config.hold_setpoint)
HitPercent(config) == PercentOfFullScale(config.hit_setpoint)
HoldPercent(config) == PercentOfFullScale(config.hold_setpoint)
HitSetpoint(config) == config.hit_setpoint
HoldSetpoint(config) == config.hold_setpoint
HitTime(config) == config.hit_time_ms

GetHitCurrentMa == GetChannelValue("GetHitCurrentMa", TRUE, "uint32_t", 0, HitMa)
GetHoldCurrentMa == GetChannelValue("GetHoldCurrentMa", TRUE, "uint32_t", 0, HoldMa)
GetHitCurrentPercent ==
  GetChannelValue("GetHitCurrentPercent", FALSE, "float", 0, HitPercent)
GetHoldCurrentPercent ==
  GetChannelValue("GetHoldCurrentPercent", FALSE, "float", 0, HoldPercent)
GetHitDutyPercent ==
  GetChannelValue("GetHitDutyPercent", FALSE, "float", 0, HitSetpoint)
GetHoldDutyPercent ==
  GetChannelValue("GetHoldDutyPercent", FALSE, "float", 0, HoldSetpoint)
GetHitTimeMs == GetChannelValue("GetHitTimeMs", FALSE, "float", 0, HitTime)

\* the caller's DutyLimits before GetDutyLimits(channel, limits) is called
DutyLimitsOutArgs == { [min_percent |-> 0, max_percent |-> 0] }

\* GetDutyLimits(channel, limits) after its GetChannelConfig call (g) and the
\* static GetDutyLimits (l)
GetChannelDutyLimitsDone(channel, prior, g, l) ==
  CallWith("GetDutyLimits", << channel >>,
           IF g.status = "OK" THEN l.status ELSE g.status,
           g.ev, g.lfb, cached_status, initialized, board_config,
           updateStatistics(NoStat, g.status = "OK"),
           << "DutyLimits", IF g.status = "OK" THEN l.limits ELSE prior >>)

GetChannelDutyLimitsRead(channel, prior, g) ==
  GetChannelDutyLimitsDone(channel, prior, g, DutyLimitsOf(g))

\* GetDutyLimits(channel, limits): no statistics update on the channel test
GetChannelDutyLimits ==
  \E channel \in ChannelArgs, prior \in DutyLimitsOutArgs :
    IF ~IsValidChannel(channel)
    THEN CallWith("GetDutyLimits", << channel >>, "INVALID_PARAMETER", << >>,
                  last_fault_byte, cached_status, initialized, board_config,
                  NoStat, << "DutyLimits", prior >>)
    ELSE \E r \in ReadResponses :
      GetChannelDutyLimitsRead(channel, prior,
                               GetChannelConfigRes(channel, r, last_fault_byte,
                                                   cached_status, board_config))

\* the arguments of the one-shot configurations after the setpoints and the
\* HIT time: side_mode, chop_freq and the four enable flags
OneShotArgs ==
  { [side_mode |-> "LOW_SIDE", chop_freq |-> 0, slew_rate_control_enabled |-> FALSE,
     open_load_detection_enabled |-> FALSE,
     plunger_movement_detection_enabled |-> FALSE,
     hit_current_check_enabled |-> FALSE],
    [side_mode |-> "HIGH_SIDE", chop_freq |-> 3, slew_rate_control_enabled |-> FALSE,
     open_load_detection_enabled |-> TRUE,
     plunger_movement_detection_enabled |-> FALSE,
     hit_current_check_enabled |-> TRUE],
    [side_mode |-> "LOW_SIDE", chop_freq |-> 3, slew_rate_control_enabled |-> TRUE,
     open_load_detection_enabled |-> FALSE,
     plunger_movement_detection_enabled |-> TRUE,
     hit_current_check_enabled |-> FALSE] }

\* ChannelConfig config; followed by the assignments of the one-shot arguments
OneShotConfig(drive_mode, hit, hold, us, o) ==
  [DefaultChannelConfig EXCEPT
     !.drive_mode = drive_mode, !.side_mode = o.side_mode,
     !.chop_freq = o.chop_freq,
     !.slew_rate_control_enabled = o.slew_rate_control_enabled,
     !.open_load_detection_enabled = o.open_load_detection_enabled,
     !.plunger_movement_detection_enabled = o.plunger_movement_detection_enabled,
     !.hit_current_check_enabled = o.hit_current_check_enabled,
     !.hit_setpoint = hit, !.hold_setpoint = hold, !.hit_time_ms = us]

OneShotHoldMaArgs == { 600 }
OneShotHitTimeArgs == { 10 * TimeScale }

ConfigureChannelCdrOn(hit_times) ==
  \E channel \in ChannelArgs, hit_ma \in CurrentArgs, hold_ma \in OneShotHoldMaArgs,
     hit_time_ms \in hit_times, o \in OneShotArgs :
    IF ~IsValidChannel(channel) \/ board_config.full_scale_current_ma = 0
    THEN Rejected("ConfigureChannelCdr",
                  << channel, hit_ma, hold_ma, hit_time_ms, o >>)
    ELSE ConfigureWith("ConfigureChannelCdr",
                       << channel, hit_ma, hold_ma, hit_time_ms, o >>, channel,
                       OneShotConfig("CDR",
                                     ClampCurrent(hit_ma, board_config) * SetpointScale,
                                     ClampCurrent(hold_ma, board_config) * SetpointScale,
                                     hit_time_ms, o))

ConfigureChannelCdr == ConfigureChannelCdrOn(OneShotHitTimeArgs)

OneShotHoldDutyArgs == { 60 * SetpointScale }

\* ConfigureChannelVdr (arguments a) after its GetDutyLimits call, which
\* returned l
ConfigureChannelVdrWith(a, channel, l) ==
  IF l.status # "OK"
  THEN CallWith("ConfigureChannelVdr", a, l.status, << >>, last_fault_byte,
                cached_status, initialized, board_config, NoStat, NoOut)
  ELSE ConfigureWith("ConfigureChannelVdr", a, channel,
                     OneShotConfig("VDR",
                                   ClampDuty(a[2], board_config, l.limits),
                                   ClampDuty(a[3], board_config, l.limits),
                                   a[4], a[5]))

ConfigureChannelVdrOn(hit_times) ==
  \E channel \in ChannelArgs, hit_duty_percent \in LimitDutyArgs,
     hold_duty_percent \in OneShotHoldDutyArgs,
     hit_time_ms \in hit_times, o \in OneShotArgs :
    IF ~IsValidChannel(channel)
    THEN Rejected("ConfigureChannelVdr",
                  << channel, hit_duty_percent, hold_duty_percent, hit_time_ms, o >>)
    ELSE ConfigureChannelVdrWith(
           << channel, hit_duty_percent, hold_duty_percent, hit_time_ms, o >>,
           channel,
           GetDutyLimits(cached_status.master_clock_80khz, o.chop_freq,
                         o.slew_rate_control_enabled))

ConfigureChannelVdr == ConfigureChannelVdrOn(OneShotHitTimeArgs)

\* a HIT time of half a second, beyond the 254 chopping-period units of every
\* chopping frequency
LongHitTimeArgs == { 500 * TimeScale }

LongHitConfigArgs ==
  { [DefaultChannelConfig EXCEPT !.drive_mode = "VDR",
       !.hit_setpoint = 50 * SetpointScale, !.hold_setpoint = 25 * SetpointScale,
       !.hit_time_ms = 500 * TimeScale] }

\* ------------------------------------------------------------------------
\* Operations on all channels
\* ------------------------------------------------------------------------
\* Entry of a loop over the channels: the driver idle, the operation o called
\* with arguments a; the loop counter starts at 0 and ret holds the local
\* status the loop keeps, OK so far.
LoopBegin(o, a, at) ==
  /\ pc = "idle"
  /\ pc' = at
  /\ ch' = 0
  /\ op' = o
  /\ args' = a
  /\ ret' = "OK"
  /\ trace' = << >>
  /\ pre' = Stored
  /\ attempt' = 0
  /\ status' = DefaultStatusConfig
  /\ comer_attempts' = {}
  /\ statistics' = NoStat
  /\ output' = NoOut
  /\ UNCHANGED << initialized, last_fault_byte, cached_status, board_config,
                  enable_pin, cmd_pin, dev_status, init_ok_since_deinit,
                  fault_callback, state_callback >>

\* One iteration of a loop over the channels: the transport events ev, the
\* last fault byte lfb, the statistics su; st is the local status after the
\* iteration; the operation returns st when done, else ++ch.
LoopStep(ev, lfb, su, st, done) ==
  /\ pc' = (IF done THEN "idle" ELSE pc)
  /\ ch' = (IF done THEN 0 ELSE ch + 1)
  /\ ret' = st
  /\ trace' = trace \o ev
  /\ last_fault_byte' = lfb
  /\ enable_pin' = PinAfter(enable_pin, ev, "ENABLE")
  /\ cmd_pin' = PinAfter(cmd_pin, ev, "CMD")
  /\ dev_status' = DevAfter(dev_status, -1, cmd_pin, ev)
  /\ statistics' = su
  /\ UNCHANGED << initialized, cached_status, board_config, attempt, status,
                  op, args, pre, comer_attempts, init_ok_since_deinit, output,
                  fault_callback, state_callback >>

\* the channels whose register access the transport may fail; it answers the
\* accesses of the other channels well
FailAtArgs == {0, 3}

WriteOk == Resp(TRUE, 1, TRUE, NoData)
BadWrites == {Resp(FALSE, 0, FALSE, NoData), Resp(TRUE, 1, FALSE, NoData)}
WriteResponsesAt(channel) ==
  IF channel \in FailAtArgs THEN {WriteOk} \cup BadWrites ELSE {WriteOk}

ConfigArrayArgs ==
  LET valid == [DefaultChannelConfig EXCEPT !.drive_mode = "CDR",
                  !.hit_setpoint = 500 * SetpointScale,
                  !.hold_setpoint = 250 * SetpointScale,
                  !.hit_time_ms = 10 * TimeScale]
      src_at_fmain == [valid EXCEPT !.chop_freq = 3,
                         !.slew_rate_control_enabled = TRUE]
  IN { [i \in 1 .. NUM_CHANNELS_ |-> valid],
       [i \in 1 .. NUM_CHANNELS_ |-> IF i = 2 THEN src_at_fmain ELSE valid] }

\* DriverStatus status = DriverStatus::OK; for (uint8_t ch = 0; ...
ConfigureAllChannelsBegin ==
  \E configs \in ConfigArrayArgs :
    LoopBegin("ConfigureAllChannels", << configs >>, "configure_all")

\* loop body: result = ConfigureChannel(ch, configs[ch]); a result that is not
\* OK is remembered in status and the loop goes on; return status after the
\* last channel
ConfigureAllChannelsStep ==
  /\ pc = "configure_all"
  /\ \E r \in WriteResponsesAt(ch) :
       LET result == ConfigureChannelRes(ch, args[1][ch + 1], r, last_fault_byte,
                                         cached_status, board_config)
       IN LoopStep(result.ev, result.lfb,
                   updateStatistics(statistics, result.status = "OK"),
                   IF result.status # "OK" THEN result.status ELSE ret,
                   ch + 1 = NUM_CHANNELS_)

Access(rd, wr) == [rd |-> rd, wr |-> wr]
ReadOk == Resp(TRUE, 1, TRUE, RxActive)
BadAccesses ==
  { Access(Resp(TRUE, 1, FALSE, NoData), WriteOk),
    Access(ReadOk, Resp(FALSE, 0, FALSE, NoData)),
    Access(Resp(TRUE, 1, TRUE, RxBusy), WriteOk) }
AccessesAt(channel) ==
  IF channel \in FailAtArgs THEN {Access(ReadOk, WriteOk)} \cup BadAccesses
  ELSE {Access(ReadOk, WriteOk)}

DpmMaskArgs == {8, 255}

\* for (uint8_t ch = 0; ...
SetDpmEnabledChannelsBegin ==
  \E channel_mask \in DpmMaskArgs :
    LoopBegin("SetDpmEnabledChannels", << channel_mask >>, "set_dpm")

\* loop body: GetChannelConfig, then ConfigureChannel when the DPM enable bit
\* differs from the mask; returns at the first result that is not OK, and OK
\* after the last channel.  a.rd answers the read of channel ch, a.wr its write.
SetDpmEnabledChannelsStep ==
  /\ pc = "set_dpm"
  /\ \E a \in AccessesAt(ch) :
       LET g == GetChannelConfigRes(ch, a.rd, last_fault_byte, cached_status,
                                    board_config)
           afterRead == updateStatistics(statistics, g.status = "OK")
           enable == BitSet(args[1], ch)
           config == [g.value EXCEPT !.plunger_movement_detection_enabled = enable]
           c == ConfigureChannelRes(ch, config, a.wr, g.lfb, cached_status,
                                    board_config)
           afterWrite == updateStatistics(afterRead, c.status = "OK")
           last == ch + 1 = NUM_CHANNELS_
       IN IF g.status # "OK"
          THEN LoopStep(g.ev, g.lfb, afterRead, g.status, TRUE)
          ELSE IF g.value.plunger_movement_detection_enabled = enable
          THEN LoopStep(g.ev, g.lfb, afterRead, "OK", last)
          ELSE LoopStep(g.ev \o c.ev, c.lfb, afterWrite, c.status,
                        c.status # "OK" \/ last)

\* ------------------------------------------------------------------------
\* Device control
\* ------------------------------------------------------------------------
SetDeviceEnableAs(o, a, enable) ==
  CallWith(o, a, "OK",
           << IF enable THEN GpioSetActive("ENABLE") ELSE GpioSetInactive("ENABLE") >>,
           last_fault_byte, cached_status, initialized, board_config,
           updateStatistics(NoStat, TRUE), NoOut)

EnableDevice == SetDeviceEnableAs("EnableDevice", << >>, TRUE)
DisableDevice == SetDeviceEnableAs("DisableDevice", << >>, FALSE)
SetDeviceEnable ==
  \E enable \in BOOLEAN : SetDeviceEnableAs("SetDeviceEnable", << enable >>, enable)

\* ------------------------------------------------------------------------
\* DPM configuration (CFG_DPM)
\* ------------------------------------------------------------------------
DefaultDpmConfig ==
  [plunger_movement_start_current |-> 0, plunger_movement_debounce_time |-> 0,
   plunger_movement_current_threshold |-> 0]

DpmToRegister(c) ==
  Word(0, 0, c.plunger_movement_start_current % 128,
       (c.plunger_movement_debounce_time % 16) * Pow2(4)
         + (c.plunger_movement_current_threshold % 16))

DpmFromRegister(val) ==
  [plunger_movement_start_current |-> FieldW(val, 8, 7),
   plunger_movement_debounce_time |-> FieldW(val, 4, 4),
   plunger_movement_current_threshold |-> FieldW(val, 0, 4)]

\* ReadDpmConfig with the result p of its readReg32: config is the caller's
\* struct, written on success only
ReadDpmConfigRes(p, config) ==
  PRes(p.status, p.ev, p.lfb,
       IF p.status = "OK" THEN DpmFromRegister(p.value) ELSE config)

\* the caller's DpmConfig before ReadDpmConfig(config) is called
DpmOutArgs == { [DefaultDpmConfig EXCEPT !.plunger_movement_debounce_time = 9] }

ReadDpmConfigDone(prior, g) ==
  GetDone("ReadDpmConfig", << prior >>, g, "DpmConfig", g.value, prior)

ReadDpmConfig ==
  \E prior \in DpmOutArgs, r \in ReadResponses :
    ReadDpmConfigDone(prior,
                      ReadDpmConfigRes(readReg32(RegBank_CFG_DPM, r, last_fault_byte),
                                       prior))

DpmArgs ==
  { [plunger_movement_start_current |-> 64, plunger_movement_debounce_time |-> 3,
     plunger_movement_current_threshold |-> 5] }

WriteDpmConfig ==
  \E config \in DpmArgs, r \in WriteResponses :
    ConfigureDone("WriteDpmConfig", << config >>,
                  writeReg32(RegBank_CFG_DPM, DpmToRegister(config), r,
                             last_fault_byte))

\* static_cast<uint32_t>(ma / full scale * 127.0f + 0.5f), for ma >= 0
DpmCurrentCode(ma, ifs) == (2 * ma * 127 + ifs) \div (2 * ifs)

\* static_cast<uint32_t>(debounce_ms * fchop_khz + 0.5f), the duration in
\* microseconds
DpmPeriods(us, fchop_khz) == (2 * us * fchop_khz + TimeScale) \div (2 * TimeScale)

\* the three assignments of ConfigureDpm to the configuration it has read
DpmConfigFor(start_current_ma, dip_threshold_ma, debounce_us, ifs, clk80) ==
  LET istart == DpmCurrentCode(start_current_ma, ifs)
      ipth == DpmCurrentCode(dip_threshold_ma, ifs)
      periods == DpmPeriods(debounce_us, getChopFreqKhz(clk80, 0))
  IN [plunger_movement_start_current |-> IF istart > 127 THEN 127 ELSE istart,
      plunger_movement_current_threshold |-> IF ipth > 15 THEN 15 ELSE ipth,
      plunger_movement_debounce_time |-> IF periods > 15 THEN 15 ELSE periods]

\* currents in whole mA and durations in microseconds; the start current stays
\* at or below twice the full scale, where its code still fits the uint8_t it
\* is cast to
DpmStartArgs == { 300, 2000 }
DpmDipArgs == { 50, 500 }
DpmDebounceArgs == { 100, 10 * TimeScale }

\* ConfigureDpm after its ReadDpmConfig call, which returned g
ConfigureDpmAfterRead(a, g) ==
  IF g.status # "OK"
  THEN ReadFailed("ConfigureDpm", a, g)
  ELSE \E r2 \in WriteResponses :
         WriteBackDone("ConfigureDpm", a, g,
                       writeReg32(RegBank_CFG_DPM,
                                  DpmToRegister(
                                    DpmConfigFor(a[1], a[2], a[3],
                                                 board_config.full_scale_current_ma,
                                                 cached_status.master_clock_80khz)),
                                  r2, g.lfb))

ConfigureDpm ==
  \E start_current_ma \in DpmStartArgs, dip_threshold_ma \in DpmDipArgs,
     debounce_ms \in DpmDebounceArgs :
    IF board_config.full_scale_current_ma = 0
    THEN Rejected("ConfigureDpm",
                  << start_current_ma, dip_threshold_ma, debounce_ms >>)
    ELSE \E r1 \in ReadResponses :
      ConfigureDpmAfterRead(
        << start_current_ma, dip_threshold_ma, debounce_ms >>,
        ReadDpmConfigRes(readReg32(RegBank_CFG_DPM, r1, last_fault_byte),
                         DefaultDpmConfig))

\* ------------------------------------------------------------------------
\* Fault operations and callbacks
\* ------------------------------------------------------------------------
DefaultFaultStatus ==
  [overcurrent_channel_mask |-> 0, hit_not_reached_channel_mask |-> 0,
   open_load_fault_channel_mask |-> 0, plunger_movement_fault_channel_mask |-> 0]

FaultFromRegister(val) ==
  [overcurrent_channel_mask |-> FieldW(val, 24, 8),
   hit_not_reached_channel_mask |-> FieldW(val, 16, 8),
   open_load_fault_channel_mask |-> FieldW(val, 8, 8),
   plunger_movement_fault_channel_mask |-> FieldW(val, 0, 8)]

hasFault(f) ==
  \/ f.overcurrent_channel_mask # 0
  \/ f.hit_not_reached_channel_mask # 0
  \/ f.open_load_fault_channel_mask # 0
  \/ f.plunger_movement_fault_channel_mask # 0

\* the caller's FaultStatus before the call
FaultOutArgs == { FaultFromRegister(Word(1, 0, 0, 0)) }

ReadFaultRegister ==
  \E prior \in FaultOutArgs, r \in ReadResponses :
    LET p == readReg32(RegBank_FAULT, r, last_fault_byte)
    IN CallWith("ReadFaultRegister", << prior >>, p.status, p.ev, p.lfb,
                cached_status, initialized, board_config,
                updateStatistics(NoStat, p.status = "OK"),
                << "FaultStatus",
                   IF p.status = "OK" THEN FaultFromRegister(p.value) ELSE prior >>)

\* << ocp_mask, hhf_mask, olf_mask, dpm_mask >>
ClearMaskArgs == { << 255, 255, 255, 255 >>, << 1, 0, 2, 0 >> }

\* const uint8_t tx[4] = {ocp_mask, hhf_mask, olf_mask, dpm_mask}
SelectiveClearTxReversed(ocp_mask, hhf_mask, olf_mask, dpm_mask) ==
  << dpm_mask, olf_mask, hhf_mask, ocp_mask >>

SelectiveClearTx(ocp_mask, hhf_mask, olf_mask, dpm_mask) ==
  << ocp_mask, hhf_mask, olf_mask, dpm_mask >>

\* ReadFaultRegisterSelectiveClear up to its return value: the command phase
\* and the data phase that carries the masks
SelectiveClearRes(ocp_mask, hhf_mask, olf_mask, dpm_mask, r, lfb) ==
  TwoPhase(writeCommandRegister(RegBank_FAULT, FALSE, FALSE, r, lfb),
           readData32WithTx(SelectiveClearTx(ocp_mask, hhf_mask, olf_mask, dpm_mask),
                            r))

ReadFaultRegisterSelectiveClear ==
  \E masks \in ClearMaskArgs, prior \in FaultOutArgs, r \in ReadResponses :
    GetDone("ReadFaultRegisterSelectiveClear", << masks, prior >>,
            SelectiveClearRes(masks[1], masks[2], masks[3], masks[4], r,
                              last_fault_byte),
            "FaultStatus",
            FaultFromRegister(SelectiveClearRes(masks[1], masks[2], masks[3],
                                                masks[4], r, last_fault_byte).value),
            prior)

ClearAllFaults ==
  \E r \in ReadResponses :
    LET p == readReg32(RegBank_FAULT, r, last_fault_byte)
    IN CallWith("ClearAllFaults", << >>, p.status, p.ev, p.lfb, cached_status,
                initialized, board_config,
                updateStatistics(NoStat, p.status = "OK"), NoOut)

ChannelMaskArgs == { 5, 128 }

\* ClearChannelFaults(channel_mask, out_faults): has_out tells whether
\* out_faults is non-null, prior is what it points to before the call
ClearChannelFaultsDone(channel_mask, has_out, prior, g) ==
  CallWith("ClearChannelFaults", << channel_mask, has_out, prior >>, g.status, g.ev,
           g.lfb, cached_status, initialized, board_config,
           updateStatistics(NoStat, g.status = "OK"),
           IF has_out
           THEN << "FaultStatus",
                   IF g.status = "OK" THEN FaultFromRegister(g.value) ELSE prior >>
           ELSE NoOut)

ClearChannelFaults ==
  \E channel_mask \in ChannelMaskArgs, has_out \in BOOLEAN, prior \in FaultOutArgs,
     r \in ReadResponses :
    ClearChannelFaultsDone(channel_mask, has_out, prior,
                           SelectiveClearRes(channel_mask, channel_mask,
                                             channel_mask, channel_mask, r,
                                             last_fault_byte))

ReadFaultFlags ==
  \E prior \in StatusOutArgs, r \in ReadResponses :
    LET q == ReadStatusRes(r, last_fault_byte, cached_status, prior)
    IN CallWith("ReadFaultFlags", << prior >>, q.status, q.ev, q.lfb, q.cs,
                initialized, board_config, NoStat, << "StatusConfig", q.out >>)

\* ClearFaultFlags reads STATUS into a local StatusConfig, caches it when the
\* read succeeded, and returns OK either way
ClearFaultFlags ==
  \E r \in ReadResponses :
    LET q == ReadStatusRes(r, last_fault_byte, cached_status, DefaultStatusConfig)
    IN CallWith("ClearFaultFlags", << >>, "OK", q.ev, q.lfb,
                IF q.status = "OK" THEN q.out ELSE q.cs, initialized, board_config,
                NoStat, NoOut)

\* GpioRead(pin, signal): rx holds the signal a successful read returns
GpioRead(pin, signal, ok) == Ev("GpioRead", pin, IF ok THEN << signal >> ELSE << >>, ok)

GetFaultPinState ==
  \E prior \in BOOLEAN, signal \in {"ACTIVE", "INACTIVE"}, ok \in BOOLEAN :
    CallWith("GetFaultPinState", << prior >>, OkOrComm(ok),
             << GpioRead("FAULT", signal, ok) >>, last_fault_byte, cached_status,
             initialized, board_config, NoStat,
             << "bool", IF ok THEN signal = "ACTIVE" ELSE prior >>)

\* a call that only stores a callback pointer: callback is TRUE for a
\* function, FALSE for nullptr; fc and sc are the stored pointers afterwards
StoreCallback(o, callback, fc, sc) ==
  /\ pc = "idle"
  /\ op' = o
  /\ args' = << callback >>
  /\ ret' = "void"
  /\ trace' = << >>
  /\ pre' = Stored
  /\ statistics' = NoStat
  /\ output' = NoOut
  /\ fault_callback' = fc
  /\ state_callback' = sc
  /\ UNCHANGED << initialized, last_fault_byte, cached_status, board_config,
                  enable_pin, cmd_pin, dev_status, pc, attempt, status,
                  comer_attempts, ch, init_ok_since_deinit >>

SetFaultCallback ==
  \E callback \in BOOLEAN :
    StoreCallback("SetFaultCallback", callback, callback, state_callback)

SetStateChangeCallback ==
  \E callback \in BOOLEAN :
    StoreCallback("SetStateChangeCallback", callback, fault_callback, callback)

\* ------------------------------------------------------------------------
\* Specification
\* ------------------------------------------------------------------------
\* Lifecycle: Initialize and Deinitialize
Next ==
  \/ InitializeBegin
  \/ InitReadStatus1
  \/ InitWriteStatus
  \/ InitReadStatus2
  \/ Deinitialize

Spec == Init /\ [][Next]_vars

\* Initialize runs to its return once called: each pending step of its loop
\* is taken (every transport call returns)
SpecFair ==
  /\ Init
  /\ [][Next]_vars
  /\ WF_vars(InitReadStatus1 \/ InitWriteStatus \/ InitReadStatus2)

\* The driver right after the fault-free Initialize in which both status
\* reads return RxActive (a state of Spec).
InitReady ==
  LET r == Resp(TRUE, 1, TRUE, RxActive)
      s1 == StatusFromRegister(RxActive)
      s == InitStatusToWrite(s1)
  IN /\ initialized = TRUE
     /\ last_fault_byte = 1
     /\ cached_status = s1
     /\ board_config = DefaultBoardConfig
     /\ enable_pin = TRUE
     /\ cmd_pin = FALSE
     /\ pc = "idle"
     /\ attempt = 0
     /\ status = s1
     /\ op = "Initialize"
     /\ args = << >>
     /\ ret = "OK"
     /\ trace = << SpiInitialize(TRUE), SpiConfigure(TRUE),
                   GpioSetActive("ENABLE"), DelayUs(PowerUpDelayUs) >>
                \o readReg32(RegBank_STATUS, r, 255).ev
                \o writeReg32(RegBank_STATUS, StatusToRegister(s), r, 1).ev
                \o readReg32(RegBank_STATUS, r, 1).ev
     /\ pre = [initialized |-> FALSE, cached_status |-> DefaultStatusConfig,
               board_config |-> DefaultBoardConfig]
     /\ comer_attempts = {}
     /\ ch = 0
     /\ dev_status = [known |-> TRUE, onch |-> 0, freqm_known |-> TRUE,
                      freqm |-> FALSE]
     /\ init_ok_since_deinit = TRUE
     /\ statistics = updateStatistics(NoStat, TRUE)
     /\ output = NoOut
     /\ fault_callback = FALSE
     /\ state_callback = FALSE

\* Channel on/off, STATUS and raw register operations
NextChannels ==
  \/ EnableChannel
  \/ DisableChannel
  \/ EnableAllChannels
  \/ DisableAllChannels
  \/ SetChannelsOn
  \/ SetFullBridgeState
  \/ ReadStatus

SpecChannels == (Init \/ InitReady) /\ [][NextChannels]_vars

\* STATUS and raw register access
NextRaw ==
  \/ ReadStatus
  \/ WriteStatus
  \/ ReadRegister32
  \/ WriteRegister32
  \/ ReadRegister8
  \/ WriteRegister8
  \/ EnableChannel

SpecRaw == (Init \/ InitReady) /\ [][NextRaw]_vars

\* Fault readout, callbacks and shutdown
NextObservers ==
  \/ SetFaultCallback
  \/ SetStateChangeCallback
  \/ ReadFaultRegister
  \/ ReadFaultRegisterSelectiveClear
  \/ GetFaultPinState
  \/ GetChannelConfig
  \/ Deinitialize

SpecObservers == (Init \/ InitReady) /\ [][NextObservers]_vars

\* Raw register access to every bank
NextCommand ==
  \/ ReadRegister32On(AllBankArgs)
  \/ WriteRegister32On(AllBankArgs)
  \/ ReadRegister8On(AllBankArgs)
  \/ WriteRegister8On(AllBankArgs)

SpecCommand == (Init \/ InitReady) /\ [][NextCommand]_vars

\* Full-bridge control: every pair index up to the bound, every state; the
\* transport either accepts the fast write or fails its command transfer, and
\* it fails no two accesses in a row (the device holds the cached mask, or the
\* one write that did not reach it has failed)
AllPairArgs == 0 .. MaxPairArg
BridgeResponses ==
  IF dev_status.onch = cached_status.channels_on_mask
  THEN {WriteOk, Resp(FALSE, 0, FALSE, NoData)}
  ELSE {WriteOk}

NextBridge == SetFullBridgeStateOn(AllPairArgs, FullBridgeStates, BridgeResponses)

SpecBridge == InitReady /\ [][NextBridge]_vars

\* RegisterCodec on its own: ChannelConfig::toRegister and fromRegister applied
\* to configurations drawn from the sets below.  Setpoints are in 1/127 mA or
\* 1/127 percent: whole values 0 .. MaxCodecMa, 3.6, 500 and 1000; durations
\* in microseconds: 1 us, 10 ms, 101.6 ms, 500 ms, 10 s and 10^6 ms.
CodecSetpointArgs ==
  {k * SetpointScale : k \in 0 .. MaxCodecMa} \cup {457, 63500, 127000}
CodecHoldArgs == {0, 63500}
CodecHitTimeArgs == {0, 1, 10000, 101600, 500000, 10000000, 1000000 * TimeScale}
CodecIfsArgs == {0, 100, 1000}
CodecArgs ==
  { << [DefaultChannelConfig EXCEPT !.drive_mode = dm, !.hit_setpoint = hit,
          !.hold_setpoint = hold, !.hit_time_ms = us, !.chop_freq = cf],
       ifs, clk80 >> :
      dm \in {"CDR", "VDR"}, hit \in CodecSetpointArgs, hold \in CodecHoldArgs,
      us \in CodecHitTimeArgs, cf \in 0 .. 3, ifs \in CodecIfsArgs,
      clk80 \in BOOLEAN }

\* a ChannelConfig in the caller's hands with its context (full-scale current,
\* clock-base flag); the driver as constructed
InitCodec ==
  /\ initialized = FALSE
  /\ last_fault_byte = 255
  /\ cached_status = DefaultStatusConfig
  /\ board_config = DefaultBoardConfig
  /\ enable_pin = FALSE
  /\ cmd_pin = FALSE
  /\ pc = "idle"
  /\ attempt = 0
  /\ status = DefaultStatusConfig
  /\ op = "constructor"
  /\ args \in CodecArgs
  /\ ret = "OK"
  /\ trace = << >>
  /\ pre = [initialized |-> FALSE, cached_status |-> DefaultStatusConfig,
            board_config |-> DefaultBoardConfig]
  /\ comer_attempts = {}
  /\ ch = 0
  /\ dev_status = UnknownDevStatus
  /\ init_ok_since_deinit = FALSE
  /\ statistics = NoStat
  /\ output = NoOut
  /\ fault_callback = FALSE
  /\ state_callback = FALSE

\* a codec function applied: only the operation name and the value in hand change
CodecCall(o, value) ==
  /\ op' = o
  /\ output' = value
  /\ UNCHANGED << initialized, last_fault_byte, cached_status, board_config,
                  enable_pin, cmd_pin, pc, attempt, status, args, ret, trace,
                  pre, comer_attempts, ch, dev_status, init_ok_since_deinit,
                  statistics, fault_callback, state_callback >>

\* r = config.toRegister(full_scale_current_ma, master_clock_80khz)
ToRegister ==
  /\ op = "constructor"
  /\ CodecCall("toRegister",
               << "uint32_t", ChannelToRegister(args[1], args[2], args[3]) >>)

\* back.fromRegister(r, ...) followed by back.toRegister(...), same context
FromRegisterToRegister ==
  /\ op = "toRegister"
  /\ LET back == ChannelFromRegister(output[2], args[2], args[3])
     IN CodecCall("fromRegister.toRegister",
                  << "uint32_t", ChannelToRegister(back, args[2], args[3]) >>)

NextCodec ==
  \/ ToRegister
  \/ FromRegisterToRegister

SpecCodec == InitCodec /\ [][NextCodec]_vars

\* Channel configuration operations
NextConfig ==
  \/ SetBoardConfig
  \/ ReadStatus
  \/ ConfigureChannel
  \/ GetChannelConfig
  \/ SetHitTimeMs
  \/ SetHitDutyPercent

SpecConfig == (Init \/ InitReady) /\ [][NextConfig]_vars

\* Setters in real units under a board configuration with safety limits:
\* 500 mA and 50 %, or 508 mA and 5 %, at a full scale of 1000 mA
LimitBoardArgs ==
  { DefaultBoardConfig,
    [full_scale_current_ma |-> 1000, max_current_ma |-> 500, max_duty_percent |-> 50],
    [full_scale_current_ma |-> 1000, max_current_ma |-> 508, max_duty_percent |-> 5] }

NextLimits ==
  \/ SetBoardConfigOn(LimitBoardArgs)
  \/ SetHitCurrentMa
  \/ SetHoldCurrentMa
  \/ ConfigureChannelCdr
  \/ SetDutyPercentOn("SetHitDutyPercent", TRUE, LimitDutyArgs)
  \/ SetHoldDutyPercent
  \/ ConfigureChannelVdr

SpecLimits == InitReady /\ [][NextLimits]_vars

\* Every operation that takes a channel number
NextPerChannel ==
  \/ EnableChannel
  \/ DisableChannel
  \/ ConfigureChannel
  \/ GetChannelConfig
  \/ SetHitCurrentMa
  \/ SetHoldCurrentMa
  \/ SetHitCurrentA
  \/ SetHoldCurrentA
  \/ SetHitCurrentPercent
  \/ SetHoldCurrentPercent
  \/ GetHitCurrentMa
  \/ GetHoldCurrentMa
  \/ GetHitCurrentPercent
  \/ GetHoldCurrentPercent
  \/ SetHitDutyPercent
  \/ SetHoldDutyPercent
  \/ GetHitDutyPercent
  \/ GetHoldDutyPercent
  \/ GetChannelDutyLimits
  \/ SetHitTimeMs
  \/ GetHitTimeMs
  \/ ConfigureChannelCdr
  \/ ConfigureChannelVdr

SpecPerChannel == InitReady /\ [][NextPerChannel]_vars

\* DPM configuration
NextDpm ==
  \/ SetBoardConfig
  \/ ReadDpmConfig
  \/ WriteDpmConfig
  \/ ConfigureDpm

SpecDpm == InitReady /\ [][NextDpm]_vars

\* Reading and clearing faults
NextFaults ==
  \/ ReadFaultRegister
  \/ ReadFaultRegisterSelectiveClear
  \/ ClearAllFaults
  \/ ClearChannelFaults
  \/ ReadFaultFlags
  \/ ClearFaultFlags

SpecFaults == (Init \/ InitReady) /\ [][NextFaults]_vars

\* Enabling and disabling single channels
NextEnable ==
  \/ SetChannelEnabledOn("EnableChannel", TRUE, TwoChannelArgs)
  \/ SetChannelEnabledOn("DisableChannel", FALSE, TwoChannelArgs)
  \/ ReadStatus

SpecEnable == InitReady /\ [][NextEnable]_vars

\* Lifecycle and the ENABLE pin
NextDevice ==
  \/ InitializeBegin
  \/ InitReadStatus1
  \/ InitWriteStatus
  \/ InitReadStatus2
  \/ Deinitialize
  \/ EnableDevice
  \/ DisableDevice
  \/ SetDeviceEnable

SpecDevice == Init /\ [][NextDevice]_vars

\* Operations that take a HIT time
NextHitTime ==
  \/ SetBoardConfig
  \/ ConfigureChannelOn(LongHitConfigArgs)
  \/ ConfigureChannelCdrOn(LongHitTimeArgs)
  \/ ConfigureChannelVdrOn(LongHitTimeArgs)
  \/ SetHitTimeMs

SpecHitTime == InitReady /\ [][NextHitTime]_vars

\* Read-modify-write of one current setpoint
NextFrame ==
  \/ SetBoardConfigOn(LimitBoardArgs)
  \/ ReadStatus
  \/ SetHitCurrentMa
  \/ SetHoldCurrentMa

SpecFrame == InitReady /\ [][NextFrame]_vars

\* Operations that loop over the channels
NextBulk ==
  \/ SetBoardConfig
  \/ ReadStatus
  \/ ConfigureAllChannelsBegin
  \/ ConfigureAllChannelsStep
  \/ SetDpmEnabledChannelsBegin
  \/ SetDpmEnabledChannelsStep

SpecBulk == (Init \/ InitReady) /\ [][NextBulk]_vars

\* ------------------------------------------------------------------------
\* Properties
\* ------------------------------------------------------------------------
InLoop == pc \in {"init_read1", "init_write", "init_read2"}
InitReturned == op = "Initialize" /\ pc = "idle"
Returned == pc = "idle" /\ op # "constructor"
SomeTransferFailed(ev) == \E i \in 1 .. Len(ev) : IsTransfer(ev[i]) /\ ~ev[i].ok
\* the transport events the step being taken appends to the trace
StepEvents == SubSeq(trace', Len(trace) + 1, Len(trace'))

\* C1: an Initialize whose command phase returns 0x04 in each of its three
\* attempts, with every transfer succeeding, returns COMMUNICATION_ERROR with
\* the driver not initialized and ENABLE deasserted.
C1_ComerExhausted ==
  (/\ InitReturned
   /\ ~SomeTransferFailed(trace)
   /\ comer_attempts = 0 .. (kMaxInitRetries - 1))
  => (ret = "COMMUNICATION_ERROR" /\ ~initialized /\ ~enable_pin)

C1_Witness ==
  /\ InitReturned
  /\ ~SomeTransferFailed(trace)
  /\ comer_attempts = 0 .. (kMaxInitRetries - 1)
  /\ ret = "COMMUNICATION_ERROR"
  /\ Len(Transfers(trace)) >= 2 * kMaxInitRetries

\* A step of Initialize's loop that saw 0x04 in its command phase abandons the
\* attempt: a new attempt begins at the status read while fewer than three
\* attempts have been made, and the step never returns OK.
AbandonsAttempt ==
  /\ attempt + 1 < kMaxInitRetries
       => (pc' = "init_read1" /\ attempt' = attempt + 1 /\ ret' = "PENDING")
  /\ ret' # "OK"

\* C2 as stated: 0x04 in the command phase of any of the three steps abandons
\* the attempt and, while fewer than three attempts have been made, starts a new
\* attempt from the status read; such an attempt never returns OK.
C2_Original ==
  [][(InLoop /\ SawComer(StepEvents)) => AbandonsAttempt]_vars

\* C2 (amended): the same, for a step whose data-phase transfer succeeds; when
\* the data-phase transfer fails Initialize returns COMMUNICATION_ERROR at once
\* and starts no new attempt.  No attempt that saw 0x04 returns OK.
C2_RetryOnComer ==
  [][/\ (InLoop /\ SawComer(StepEvents) /\ ~SomeTransferFailed(StepEvents))
          => AbandonsAttempt
     /\ (InLoop /\ SawComer(StepEvents) /\ SomeTransferFailed(StepEvents))
          => (pc' = "idle" /\ ret' = "COMMUNICATION_ERROR")
     /\ (InLoop /\ ret' = "OK") => attempt' \notin comer_attempts']_vars

C2_Witness ==
  /\ pc = "init_read1"
  /\ attempt = 1
  /\ comer_attempts = {0}
  /\ ~SomeTransferFailed(trace)

Lifecycle ==
  IF pc # "idle" THEN "Initializing"
  ELSE IF initialized THEN "Ready" ELSE "Uninitialized"

C4_Lifecycle ==
  /\ Lifecycle \in {"Uninitialized", "Initializing", "Ready"}
  /\ initialized => init_ok_since_deinit
  /\ Lifecycle = "Initializing" => (~initialized /\ ret = "PENDING")
  /\ (InitReturned /\ ret # "OK") => Lifecycle = "Uninitialized"

C4_Witness ==
  /\ Lifecycle = "Ready"
  /\ InitReturned
  /\ ret = "OK"
  /\ ~pre.initialized
  /\ attempt = 2

\* C5: Deinitialize returns OK and leaves the driver not initialized whatever
\* state it is called in; called on a driver that is not initialized it makes
\* no transport call at all (no transfer, no control-signal change).
C5_Deinitialize ==
  (op = "Deinitialize")
  => /\ pc = "idle"
     /\ ret = "OK"
     /\ ~initialized
     /\ ~pre.initialized => trace = << >>

C5_Witness ==
  /\ op = "Deinitialize"
  /\ ~pre.initialized
  /\ pre.cached_status.active
  /\ trace = << >>
  /\ ret = "OK"

\* C6: a successful EnableChannel / DisableChannel on a valid channel makes
\* exactly two transfers: the 1-byte command (a write to bank 0x00 with the
\* 8-bit mode bit set) and one 1-byte data transfer carrying the new mask, which
\* is the previous cached mask with the channel's bit set or cleared.
C6_OneFastWrite ==
  (/\ op \in {"EnableChannel", "DisableChannel"}
   /\ ret = "OK"
   /\ IsValidChannel(args[1]))
  => LET t == Transfers(trace)
         old == pre.cached_status.channels_on_mask
     IN /\ Len(t) = 2
        /\ \A i \in 1 .. 2 : Len(t[i].arg) = 1 /\ t[i].ok
        /\ BitSet(t[1].arg[1], 0)
        /\ BitSet(t[1].arg[1], 7)
        /\ Field(t[1].arg[1], 1, 4) = RegBank_STATUS
        /\ BitSet(t[2].arg[1], args[1]) = (op = "EnableChannel")
        /\ \A b \in (0 .. 7) \ {args[1]} : BitSet(t[2].arg[1], b) = BitSet(old, b)
        /\ cached_status.channels_on_mask = t[2].arg[1]

C6_Witness ==
  /\ op = "DisableChannel"
  /\ ret = "OK"
  /\ args = << 7 >>
  /\ pre.cached_status.channels_on_mask = 255
  /\ Len(Transfers(trace)) = 2

\* C7: whenever a transfer failed during an operation, the operation returned
\* COMMUNICATION_ERROR and the stored state (cached status, initialized flag,
\* board configuration) is what it was when the operation was called.
C7_NoPartialState ==
  (Returned /\ SomeTransferFailed(trace))
  => (ret = "COMMUNICATION_ERROR" /\ Stored = pre)

\* the call touched the STATUS register: some data-phase transfer of its trace
\* carried STATUS contents
ExchangedStatus == DevAfter(UnknownDevStatus, -1, FALSE, trace).known

\* C8: after every successful operation that read or wrote the STATUS register
\* the cached channel-on mask and clock-base flag equal the STATUS contents
\* last read from or written to the device.
C8_CacheInSync ==
  (Returned /\ ret = "OK" /\ ExchangedStatus)
  => /\ cached_status.channels_on_mask = dev_status.onch
     /\ dev_status.freqm_known
          => cached_status.master_clock_80khz = dev_status.freqm

\* C9: an operation that returned INVALID_PARAMETER made no transfer.
C9_InvalidParameterNoTransfer ==
  (Returned /\ ret = "INVALID_PARAMETER") => Transfers(trace) = << >>

\* C10: ConfigureChannel returns INVALID_PARAMETER without any transfer when
\* the channel is 8 or more, when CDR is requested with full-scale current 0,
\* or when SRC is requested with fCHOP >= 50 kHz; otherwise it sends the write
\* command for bank 0x01 + channel and then the encoded configuration.
C10_ConfigureChannel ==
  (op = "ConfigureChannel")
  => LET channel == args[1]
         config == args[2]
         clk80 == pre.cached_status.master_clock_80khz
         ifs == pre.board_config.full_scale_current_ma
         fchop == getChopFreqKhz(clk80, config.chop_freq)
         t == Transfers(trace)
         reg == ChannelToRegister(config, ifs, clk80)
     IN IF \/ channel >= 8
           \/ config.drive_mode = "CDR" /\ ifs = 0
           \/ config.slew_rate_control_enabled /\ fchop >= 50
        THEN ret = "INVALID_PARAMETER" /\ t = << >>
        ELSE /\ ret # "INVALID_PARAMETER"
             /\ Len(t) >= 1
             /\ t[1].arg = << 128 + 2 * (1 + channel) >>
             /\ t[1].ok => /\ Len(t) = 2
                           /\ t[2].arg = << reg[4], reg[3], reg[2], reg[1] >>
                           /\ ret = OkOrComm(t[2].ok)

C10_Witness ==
  /\ op = "ConfigureChannel"
  /\ ret = "OK"
  /\ args[1] = 7
  /\ args[2].slew_rate_control_enabled
  /\ pre.cached_status.master_clock_80khz
  /\ Len(Transfers(trace)) = 2

\* C11: an operation other than Initialize stops at its first error: once a
\* transfer has failed it makes no further transfer and it returns
\* COMMUNICATION_ERROR, the status of that failure.
C11_FailFast ==
  (Returned /\ op # "Initialize")
  => \A i \in 1 .. Len(trace) :
       (IsTransfer(trace[i]) /\ ~trace[i].ok)
       => /\ \A j \in (i + 1) .. Len(trace) : ~IsTransfer(trace[j])
          /\ ret = "COMMUNICATION_ERROR"

\* the event at position i of ev is a command-phase transfer: a transfer made
\* right after CMD was asserted
IsCommandPhase(ev, i) ==
  /\ i >= 2
  /\ IsTransfer(ev[i])
  /\ ev[i - 1] = GpioSetActive("CMD")

\* C12: an operation other than Initialize does not repeat a bus transaction
\* because the fault byte is 0x04: when a command phase returns 0x04 and every
\* transfer succeeds, a register access operation returns OK after its one
\* command and one data transfer, and the command that got 0x04 is not sent
\* again.
C12_NoRetryOutsideInitialize ==
  (Returned /\ op # "Initialize" /\ ~SomeTransferFailed(trace) /\ SawComer(trace))
  => /\ ret = "OK"
     /\ Len(Transfers(trace)) = 2
     /\ \A i \in 1 .. Len(trace), j \in 1 .. Len(trace) :
          (IsCommandPhase(trace, i) /\ IsCommandPhase(trace, j) /\ i < j
             /\ trace[i].rx = << FAULT_BYTE_COMER >>)
          => trace[j].arg # trace[i].arg

C12_Witness ==
  /\ Returned
  /\ op = "WriteRegister32"
  /\ ~SomeTransferFailed(trace)
  /\ SawComer(trace)
  /\ ret = "OK"
  /\ last_fault_byte = FAULT_BYTE_COMER

\* the transport events and callback invocations of ev named e
Named(ev, e) == SelectSeq(ev, LAMBDA x : x.ev = e)

\* C13: a registered callback is invoked before the operation returns: with a
\* state-change callback registered, an operation that changes the lifecycle
\* state invokes it, and with a fault callback registered, a fault register
\* read that returns a fault invokes it.
C13_CallbacksInvoked ==
  Returned
  => /\ (state_callback /\ pre.initialized # initialized)
          => Named(trace, "StateChangeCallback") # << >>
     /\ (/\ fault_callback
         /\ op \in {"ReadFaultRegister", "ReadFaultRegisterSelectiveClear"}
         /\ ret = "OK"
         /\ hasFault(output[2]))
          => Named(trace, "FaultCallback") # << >>

\* C14: a public operation that performs a bus transfer increments the
\* total-operations counter, and one that returns a status other than OK
\* increments the failure counter (statistics counts from the call's start).
C14_StatisticsCounted ==
  Returned
  => /\ (Transfers(trace) # << >>) => statistics.total_transfers >= 1
     /\ (ret # "OK") => statistics.failed_transfers >= 1

\* C15: when an operation with an output parameter returns a status other
\* than OK, the output parameter holds the default value of its type,
\* whatever it held before the call.
C15_OutputDefaultOnError ==
  (Returned /\ output # NoOut /\ ret # "OK")
  => output[2] = CASE output[1] = "ChannelConfig" -> DefaultChannelConfig
                   [] output[1] = "FaultStatus" -> DefaultFaultStatus
                   [] output[1] = "StatusConfig" -> DefaultStatusConfig
                   [] output[1] = "bool" -> FALSE
                   [] output[1] = "uint32_t" -> Word(0, 0, 0, 0)
                   [] output[1] = "uint8_t" -> 0

\* C16: CMD is asserted only for the 1-byte command-phase transfer and is
\* deasserted right after it, whether the transfer succeeded or failed; every
\* other transfer is made with CMD deasserted, and CMD is deasserted whenever
\* an operation has returned.
C16_CmdOnlyForCommandPhase ==
  /\ Returned => ~cmd_pin
  /\ \A i \in 1 .. Len(trace) :
       /\ (trace[i] = GpioSetActive("CMD"))
            => /\ i + 2 <= Len(trace)
               /\ IsTransfer(trace[i + 1])
               /\ Len(trace[i + 1].arg) = 1
               /\ trace[i + 2] = GpioSetInactive("CMD")
       /\ IsTransfer(trace[i])
            => (PinAfter(FALSE, SubSeq(trace, 1, i - 1), "CMD")
                  <=> IsCommandPhase(trace, i))

C16_Witness ==
  /\ Returned
  /\ op = "ReadRegister32"
  /\ Len(trace) = 3
  /\ trace[1] = GpioSetActive("CMD")
  /\ IsTransfer(trace[2]) /\ ~trace[2].ok
  /\ trace[3] = GpioSetInactive("CMD")
  /\ ~cmd_pin

\* C17: a register access is one 1-byte command transfer followed, when that
\* transfer succeeded, by exactly one data transfer of 1 byte if the mode bit
\* of the command byte is set and of 4 bytes otherwise; there is no data
\* transfer after a failed command transfer.
C17_OneCommandOneData ==
  \A i \in 1 .. Len(trace) :
    /\ IsCommandPhase(trace, i)
         => /\ Len(trace[i].arg) = 1
            /\ trace[i].ok
                 => /\ i + 2 <= Len(trace)
                    /\ IsTransfer(trace[i + 2])
                    /\ Len(trace[i + 2].arg)
                         = (IF BitSet(trace[i].arg[1], 0) THEN 1 ELSE 4)
    /\ (IsTransfer(trace[i]) /\ ~IsCommandPhase(trace, i))
         => /\ i >= 4
            /\ IsCommandPhase(trace, i - 2)
            /\ trace[i - 2].ok

C17_Witness ==
  /\ Returned
  /\ op = "ReadFaultRegisterSelectiveClear"
  /\ ret = "OK"
  /\ Len(Transfers(trace)) = 2
  /\ Transfers(trace)[1].arg = << CommandReg_build(RegBank_FAULT, FALSE, FALSE) >>
  /\ Transfers(trace)[2].arg = args[1]

\* bits 31:16 and bits 15:0 of a 32-bit value, as numbers
High16(val) == ByteOf(val, 3) * 256 + ByteOf(val, 2)
Low16(val) == ByteOf(val, 1) * 256 + ByteOf(val, 0)

\* C18: a 32-bit write transmits the value least significant byte first
\* (tx[0] = bits 7:0 ... tx[3] = bits 31:24), and a 32-bit read assembles the
\* value most significant byte first (rx[0] = bits 31:24 ... rx[3] = bits 7:0).
C18_ByteOrder ==
  /\ (Returned /\ op = "WriteRegister32" /\ Len(Transfers(trace)) = 2)
       => LET tx == Transfers(trace)[2].arg
          IN /\ Len(tx) = 4
             /\ tx[1] = Low16(args[2]) % 256
             /\ tx[2] = Low16(args[2]) \div 256
             /\ tx[3] = High16(args[2]) % 256
             /\ tx[4] = High16(args[2]) \div 256
  /\ (Returned /\ op = "ReadRegister32" /\ ret = "OK")
       => LET rx == Transfers(trace)[2].rx
          IN /\ Len(rx) = 4
             /\ High16(output[2]) = rx[1] * 256 + rx[2]
             /\ Low16(output[2]) = rx[3] * 256 + rx[4]

C18_Witness ==
  /\ Returned
  /\ op = "WriteRegister32"
  /\ ret = "OK"
  /\ args[2] = Word(5, 5, 0, 1)
  /\ Transfers(trace)[2].arg = << 1, 0, 5, 5 >>

RawOps == {"ReadRegister32", "WriteRegister32", "ReadRegister8", "WriteRegister8"}

\* C19: for every bank 0x00..0x0A the command byte is 0x80 for a write, plus
\* the bank address shifted left by one, plus 1 for an 8-bit access, with bits 6
\* and 5 zero; a 32-bit write of bank 1 sends 0x82 and an 8-bit read of bank 1
\* sends 0x03.
C19_CommandByte ==
  /\ CommandReg_build(RegBank_CFG_CH0, TRUE, FALSE) = 130
  /\ CommandReg_build(RegBank_CFG_CH0, FALSE, TRUE) = 3
  /\ (Returned /\ op \in RawOps)
       => LET cb == Transfers(trace)[1].arg
          IN /\ Len(cb) = 1
             /\ cb[1] = (IF op \in {"WriteRegister32", "WriteRegister8"} THEN 128 ELSE 0)
                          + 2 * args[1]
                          + (IF op \in {"ReadRegister8", "WriteRegister8"} THEN 1 ELSE 0)
             /\ (cb[1] \div 32) % 4 = 0

C19_Witness ==
  /\ Returned
  /\ op = "WriteRegister8"
  /\ args[1] = RegBank_CFG_DPM
  /\ Transfers(trace)[1].arg = << 149 >>

\* C20: in Initialize the transport initialisation and its configuration
\* (mode 0, MSB first) have both succeeded before ENABLE is asserted, and the
\* assertion of ENABLE and a delay of at least 500 us come before the first
\* bus transfer.
C20_PowerUpOrder ==
  (op = "Initialize"
     /\ \E i \in 1 .. Len(trace) :
          trace[i] = GpioSetActive("ENABLE") \/ IsTransfer(trace[i]))
  => /\ Len(trace) >= 4
     /\ trace[1] = Ev("Initialize", << >>, << >>, TRUE)
     /\ trace[2].ev = "Configure" /\ trace[2].ok
     /\ trace[2].arg[2] = 0 /\ trace[2].arg[3] = TRUE
     /\ trace[3] = GpioSetActive("ENABLE")
     /\ trace[4].ev = "DelayUs" /\ trace[4].arg >= 500
     /\ \A i \in 1 .. Len(trace) :
          /\ IsTransfer(trace[i]) => i > 4
          /\ trace[i] = GpioSetActive("ENABLE") => i = 3

C20_Witness ==
  /\ op = "Initialize"
  /\ InitReturned
  /\ ret = "OK"
  /\ initialized
  /\ SubSeq(trace, 1, 4) = InitPowerUp
  /\ IsTransfer(trace[6])

\* the STATUS value carried by the data phase of a 32-bit write (sent least
\* significant byte first) or of a 32-bit read (received most significant first)
WrittenWord(e) == Word(e.arg[4], e.arg[3], e.arg[2], e.arg[1])
ReadWord(e) == Word(e.rx[1], e.rx[2], e.rx[3], e.rx[4])

\* C21: when Initialize returns OK the driver is initialized; when it got there
\* through the bus (it was not initialized before), the status value of its
\* last write had ACTIVE set, channel-on mask 0 and the communication-error
\* mask set, and the cached status is the status decoded from the re-read that
\* followed that write.
C21_InitializeOk ==
  (InitReturned /\ ret = "OK")
  => /\ initialized
     /\ ~pre.initialized
          => LET t == Transfers(trace)
                 n == Len(t)
                 written == StatusFromRegister(WrittenWord(t[n - 2]))
             IN /\ n >= 6
                /\ t[n - 3].arg = << CommandReg_build(RegBank_STATUS, TRUE, FALSE) >>
                /\ written.active
                /\ written.channels_on_mask = 0
                /\ written.communication_error_masked
                /\ t[n - 1].arg = << CommandReg_build(RegBank_STATUS, FALSE, FALSE) >>
                /\ cached_status = StatusFromRegister(ReadWord(t[n]))

C21_Witness ==
  /\ InitReturned
  /\ ret = "OK"
  /\ ~pre.initialized
  /\ initialized
  /\ Transfers(trace)[2].rx = RxBusy
  /\ cached_status = StatusFromRegister(RxActive)
  /\ Len(Transfers(trace)) = 6

\* the event at position i of ev is the data phase of a 32-bit STATUS write
IsStatusWriteData(ev, i) ==
  /\ i >= 4
  /\ IsTransfer(ev[i])
  /\ IsCommandPhase(ev, i - 2)
  /\ ev[i - 2].arg = << CommandReg_build(RegBank_STATUS, TRUE, FALSE) >>

\* C22: every status value Initialize writes has the four channel pairs in
\* INDEPENDENT mode (00), the communication-error mask set and every other
\* fault mask clear, whatever was read from the device before.
C22_InitWritesDefaults ==
  (op = "Initialize")
  => \A i \in 1 .. Len(trace) :
       IsStatusWriteData(trace, i)
       => LET written == StatusFromRegister(WrittenWord(trace[i]))
          IN /\ written.channel_pair_mode_76 = 0
             /\ written.channel_pair_mode_54 = 0
             /\ written.channel_pair_mode_32 = 0
             /\ written.channel_pair_mode_10 = 0
             /\ written.communication_error_masked
             /\ ~written.overtemperature_masked
             /\ ~written.overcurrent_masked
             /\ ~written.open_load_fault_masked
             /\ ~written.hit_not_reached_masked
             /\ ~written.plunger_movement_fault_masked
             /\ ~written.undervoltage_masked

\* C23: Deinitialize on an initialized driver makes, in this order, the 8-bit
\* fast write of channel-on mask 0 (command 0x81, then the byte 0), the 32-bit
\* STATUS write (command 0x80, then a value with ACTIVE clear and channel-on
\* mask 0) and the deassertion of ENABLE, and nothing else; the data phase of
\* a write is absent only when its command transfer failed.
C23_DeinitializeOrder ==
  (op = "Deinitialize" /\ pre.initialized)
  => LET t == Transfers(trace)
         n == Len(t)
         \* position in t of the command of the second write
         c2 == IF t[1].ok THEN 3 ELSE 2
     IN /\ n >= 2
        /\ trace[Len(trace)] = GpioSetInactive("ENABLE")
        /\ \A i \in 1 .. (Len(trace) - 1) : trace[i].arg # "ENABLE"
        /\ t[1].arg = << CommandReg_build(RegBank_STATUS, TRUE, TRUE) >>
        /\ t[1].ok => t[2].arg = << 0 >>
        /\ t[c2].arg = << CommandReg_build(RegBank_STATUS, TRUE, FALSE) >>
        /\ n = c2 + (IF t[c2].ok THEN 1 ELSE 0)
        /\ t[c2].ok
             => LET written == StatusFromRegister(WrittenWord(t[n]))
                IN ~written.active /\ written.channels_on_mask = 0

C23_Witness ==
  /\ op = "Deinitialize"
  /\ pre.initialized
  /\ pre.cached_status.channels_on_mask = 192
  /\ pre.cached_status.master_clock_80khz
  /\ ~SomeTransferFailed(trace)
  /\ Len(Transfers(trace)) = 4
  /\ Transfers(trace)[2].arg = << 0 >>
  /\ ~enable_pin

\* C24: SetFullBridgeState with pair index p in 0..3 sets bits 2p+1 and 2p of
\* the channel-on mask to 00 (HiZ), 01 (Forward), 10 (Reverse) or 11 (Brake),
\* keeps the other six bits of the cached mask, and sends the resulting mask in
\* one 8-bit fast write (command 0x81, then the mask).
C24_FullBridgeState ==
  (Returned /\ op = "SetFullBridgeState" /\ args[1] \in 0 .. 3)
  => LET p == args[1]
         old == pre.cached_status.channels_on_mask
         mask == cached_status.channels_on_mask
         t == Transfers(trace)
     IN /\ Field(mask, 2 * p, 2) = (CASE args[2] = "HiZ" -> 0
                                      [] args[2] = "Forward" -> 1
                                      [] args[2] = "Reverse" -> 2
                                      [] args[2] = "Brake" -> 3)
        /\ \A b \in (0 .. 7) \ {2 * p, 2 * p + 1} : BitSet(mask, b) = BitSet(old, b)
        /\ Len(t) = (IF t[1].ok THEN 2 ELSE 1)
        /\ t[1].arg = << CommandReg_build(RegBank_STATUS, TRUE, TRUE) >>
        /\ t[1].ok => t[2].arg = << mask >>

C24_Witness ==
  /\ Returned
  /\ op = "SetFullBridgeState"
  /\ args = << 2, "Reverse" >>
  /\ pre.cached_status.channels_on_mask = 255
  /\ cached_status.channels_on_mask = 239
  /\ ret = "OK"
  /\ Transfers(trace)[2].arg = << 239 >>

\* the call sent no write command
NoWriteCommand ==
  \A i \in 1 .. Len(trace) : IsCommandPhase(trace, i) => trace[i].arg[1] < RBW_WRITE

\* the call read the channel configuration: its first two transfers, the read
\* command and the 4-byte data phase, succeeded
ConfigWasRead ==
  LET t == Transfers(trace)
  IN Len(t) >= 2 /\ t[1].ok /\ t[2].ok /\ Len(t[2].rx) = 4

\* the chopping frequency selector of the configuration the call read
ReadChopFreq == FieldW(ReadWord(Transfers(trace)[2]), 4, 2)

\* the duration of a SetHitTimeMs call is finite, positive and longer than the
\* longest HIT time at the chopping frequency the call read
HitTimeTooLong ==
  /\ args[2].finite
  /\ ConfigWasRead
  /\ args[2].us > 0
  /\ args[2].us > getMaxHitTimeMs(pre.cached_status.master_clock_80khz, ReadChopFreq)

C26_HitTimeByteRange ==
  (op = "toRegister" /\ args[1].hit_time_ms > 0
     /\ args[1].hit_time_ms < 1000000 * TimeScale)
  => FieldW(output[2], 8, 8) \in 1 .. 254

\* round(v / full-scale * 127) for a setpoint of v / 127 mA: round(v / ifs)
RoundedCode(v, ifs) == (2 * v + ifs) \div (2 * ifs)

\* C27: in current-regulation mode the 7-bit code of a setpoint (HIT or HOLD)
\* is 0 when the full-scale current is 0, 127 when the setpoint is at least the
\* full-scale current, and round(setpoint / full-scale * 127) otherwise; 500 mA
\* at a full scale of 1000 mA gives 64.
C27_CdrSetpointCode ==
  /\ currentMaToRaw(1000, 500) = 64
  /\ (op = "toRegister" /\ args[1].drive_mode = "CDR")
       => LET ifs == args[2]
              Code(v) == IF ifs = 0 THEN 0
                         ELSE IF v >= ifs * SetpointScale THEN 127
                         ELSE RoundedCode(v, ifs)
          IN /\ FieldW(output[2], 16, 7) = Code(args[1].hit_setpoint)
             /\ FieldW(output[2], 24, 7) = Code(args[1].hold_setpoint)

\* C28: for every register value r produced by toRegister from a channel
\* configuration with a full-scale current and a clock-base flag, fromRegister
\* of r followed by toRegister, both with the same context, yields r again.
C28_RoundTrip ==
  [][op' = "fromRegister.toRegister" => output' = output]_vars

C28_Witness ==
  /\ op = "fromRegister.toRegister"
  /\ args[1].drive_mode = "CDR"
  /\ args[1].hit_setpoint = 2 * SetpointScale
  /\ args[1].chop_freq = 1
  /\ args[2] = 100
  /\ ~args[3]
  /\ FieldW(output[2], 16, 7) = 3
  /\ FieldW(output[2], 8, 8) = 8

\* the call wrote a channel configuration: its last two transfers are a write
\* command and a 4-byte data phase, both successful
WroteConfig ==
  LET t == Transfers(trace)
      n == Len(t)
  IN /\ n >= 2
     /\ t[n - 1].ok /\ Len(t[n - 1].arg) = 1 /\ t[n - 1].arg[1] >= RBW_WRITE
     /\ t[n].ok /\ Len(t[n].arg) = 4

\* the configuration word of that write, and its HIT and HOLD codes
ProgrammedWord == WrittenWord(Transfers(trace)[Len(Transfers(trace))])
ProgrammedHit == FieldW(ProgrammedWord, 16, 7)
ProgrammedHold == FieldW(ProgrammedWord, 24, 7)

\* C29: with a non-zero max_current_ma a current-setting operation programs no
\* current above max_current_ma: the HIT code written by SetHitCurrentMa, the
\* HOLD code written by SetHoldCurrentMa and both codes written by
\* ConfigureChannelCdr stand for code / 127 * full-scale <= max_current_ma.
C29_MaxCurrent ==
  (/\ Returned
   /\ op \in {"SetHitCurrentMa", "SetHoldCurrentMa", "ConfigureChannelCdr"}
   /\ pre.board_config.max_current_ma > 0
   /\ WroteConfig)
  => LET Within(code) == code * pre.board_config.full_scale_current_ma
                           <= pre.board_config.max_current_ma * 127
     IN /\ op # "SetHoldCurrentMa" => Within(ProgrammedHit)
        /\ op # "SetHitCurrentMa" => Within(ProgrammedHold)

\* C30: with a non-zero max_duty_percent a duty-setting operation programs no
\* duty cycle above max_duty_percent: the HIT code written by
\* SetHitDutyPercent, the HOLD code written by SetHoldDutyPercent and both
\* codes written by ConfigureChannelVdr stand for code / 127 * 100 <=
\* max_duty_percent.
C30_MaxDuty ==
  (/\ Returned
   /\ op \in {"SetHitDutyPercent", "SetHoldDutyPercent", "ConfigureChannelVdr"}
   /\ pre.board_config.max_duty_percent > 0
   /\ WroteConfig)
  => LET Within(code) == code * 100 <= pre.board_config.max_duty_percent * 127
     IN /\ op # "SetHoldDutyPercent" => Within(ProgrammedHit)
        /\ op # "SetHitDutyPercent" => Within(ProgrammedHold)

\* the operations that take a channel number as their first argument
PerChannelOps ==
  { "EnableChannel", "DisableChannel", "ConfigureChannel", "GetChannelConfig",
    "SetHitCurrentMa", "SetHoldCurrentMa", "SetHitCurrentA", "SetHoldCurrentA",
    "SetHitCurrentPercent", "SetHoldCurrentPercent", "GetHitCurrentMa",
    "GetHoldCurrentMa", "GetHitCurrentPercent", "GetHoldCurrentPercent",
    "SetHitDutyPercent", "SetHoldDutyPercent", "GetHitDutyPercent",
    "GetHoldDutyPercent", "GetDutyLimits", "SetHitTimeMs", "GetHitTimeMs",
    "ConfigureChannelCdr", "ConfigureChannelVdr" }

\* C31: a channel index c (a uint8_t) is valid exactly when c < 8, and every
\* operation that takes a channel number returns INVALID_PARAMETER, without a
\* bus transfer, when it is called with c >= 8.
C31_ValidChannel ==
  /\ \A c \in 0 .. 255 : IsValidChannel(c) <=> c < 8
  /\ (Returned /\ op \in PerChannelOps /\ args[1] >= 8)
       => (ret = "INVALID_PARAMETER" /\ trace = << >>)

C31_Witness ==
  /\ Returned
  /\ op = "SetHoldCurrentPercent"
  /\ args[1] = 8
  /\ ret = "INVALID_PARAMETER"
  /\ trace = << >>
  /\ pre.board_config.full_scale_current_ma = 1000

\* a value supplied to ConfigureDpm is out of range: the start current above
\* the full scale (code above 127), the dip threshold above code 15, or the
\* debounce time above 15 chopping periods
DpmOutOfRange ==
  LET ifs == pre.board_config.full_scale_current_ma
      fchop_khz == getChopFreqKhz(pre.cached_status.master_clock_80khz, 0)
  IN /\ ifs > 0
     /\ \/ args[1] > ifs
        \/ DpmCurrentCode(args[2], ifs) > 15
        \/ DpmPeriods(args[3], fchop_khz) > 15

\* C32: ConfigureDpm returns INVALID_PARAMETER when the board's full-scale
\* current is not set, and when a supplied value (start current, dip
\* threshold or debounce time) is out of range.
C32_ConfigureDpmRejects ==
  (Returned /\ op = "ConfigureDpm"
     /\ (pre.board_config.full_scale_current_ma = 0 \/ DpmOutOfRange))
  => ret = "INVALID_PARAMETER"

\* the transfers of a selective clear: the read command for the FAULT bank,
\* then, when the command phase went through, one 4-byte data phase
\* transmitting tx
SelectiveClearTransfers(tx) ==
  LET t == Transfers(trace)
  IN /\ Len(t) \in 1 .. 2
     /\ t[1].arg = << CommandReg_build(RegBank_FAULT, FALSE, FALSE) >>
     /\ ~BitSet(t[1].arg[1], 7)
     /\ ret = "OK" => Len(t) = 2
     /\ Len(t) = 2 => t[2].arg = tx

\* C33: ReadFaultRegisterSelectiveClear issues the read command for the fault
\* bank followed by a 4-byte data phase whose transmitted bytes are the four
\* clear masks in the order overcurrent, hit-not-reached, open-load,
\* plunger-movement; ClearChannelFaults sends the given channel mask as all
\* four bytes.
C33_SelectiveClearBytes ==
  /\ (Returned /\ op = "ReadFaultRegisterSelectiveClear")
       => SelectiveClearTransfers(<< args[1][1], args[1][2], args[1][3],
                                     args[1][4] >>)
  /\ (Returned /\ op = "ClearChannelFaults")
       => SelectiveClearTransfers(<< args[1], args[1], args[1], args[1] >>)

C33_Witness ==
  /\ Returned
  /\ op = "ReadFaultRegisterSelectiveClear"
  /\ ret = "OK"
  /\ args[1] = << 1, 0, 2, 0 >>
  /\ Transfers(trace)[2].arg = << 1, 0, 2, 0 >>
  /\ output[2].overcurrent_channel_mask = Transfers(trace)[2].rx[1]

\* C34: in any sequence of channel enable/disable calls, failed fast writes
\* included, the mask sent by a successful EnableChannel(c) or
\* DisableChannel(c) differs from the channel-on mask last successfully
\* written to or read from the device only in bit c.
C34_OnlyBitChanges ==
  [][(/\ Returned'
      /\ op' \in {"EnableChannel", "DisableChannel"}
      /\ ret' = "OK"
      /\ dev_status.known)
     => \A b \in 0 .. 7 :
          b # args'[1]
            => BitSet(Transfers(trace')[2].arg[1], b) = BitSet(dev_status.onch, b)]_vars

\* C35: whenever the driver reports itself initialized the ENABLE pin is
\* asserted; no sequence of public operations leaves IsInitialized true with
\* ENABLE deasserted.
C35_InitializedImpliesEnabled ==
  (pc = "idle" /\ initialized) => enable_pin

\* C36: while the driver is uninitialized, no public operation other than
\* Initialize issues a bus transfer.
C36_NoTransferUninitialized ==
  (Returned /\ ~pre.initialized /\ op # "Initialize") => Transfers(trace) = << >>

\* the write of WroteConfig addresses a channel configuration bank
WroteChannelBank ==
  LET t == Transfers(trace)
  IN Field(t[Len(t) - 1].arg[1], A_BNK_POS, 4)
       \in RegBank_CFG_CH0 .. RegBank_CFG_CH0 + NUM_CHANNELS_ - 1

\* C37: the driver never writes a channel configuration that combines CDR
\* (VDRnCDR = 0) with high-side mode (HSnLS = 1).
C37_NoCdrHighSide ==
  (Returned /\ WroteConfig /\ WroteChannelBank)
  => ~(~BitSetW(ProgrammedWord, 7) /\ BitSetW(ProgrammedWord, 6))

\* the HIT time handed to the operation, in microseconds
HitTimeArgUs ==
  CASE op = "ConfigureChannel" -> args[2].hit_time_ms
    [] op \in {"ConfigureChannelCdr", "ConfigureChannelVdr"} -> args[4]
    [] op = "SetHitTimeMs" -> args[2].us
    [] OTHER -> 0

HitTimeArgFinite == op = "SetHitTimeMs" => args[2].finite

\* C38: no operation that accepts a HIT time (ConfigureChannel,
\* ConfigureChannelCdr, ConfigureChannelVdr, SetHitTimeMs) writes the
\* continuous code 255 into the HIT-time byte for a finite positive duration
\* below 1,000,000 ms.
C38_NoContinuousForFinite ==
  (/\ Returned
   /\ op \in {"ConfigureChannel", "ConfigureChannelCdr", "ConfigureChannelVdr",
              "SetHitTimeMs"}
   /\ WroteConfig
   /\ WroteChannelBank
   /\ HitTimeArgFinite
   /\ HitTimeArgUs > 0
   /\ HitTimeArgUs < 1000000 * TimeScale)
  => FieldW(ProgrammedWord, 8, 8) # 255

\* the call read a configuration word and wrote one back: four successful
\* transfers, the second receiving four bytes and the fourth sending four
ReadThenWrote ==
  LET t == Transfers(trace)
  IN /\ Len(t) = 4
     /\ \A i \in 1 .. 4 : t[i].ok
     /\ Len(t[2].rx) = 4
     /\ Len(t[4].arg) = 4

\* the word received in the data phase of the read (first byte received is
\* bits 31:24)
FrameReadWord ==
  LET e == Transfers(trace)[2] IN Word(e.rx[1], e.rx[2], e.rx[3], e.rx[4])

\* everything except the two setpoint codes and the drive-mode bit is written
\* as it was read: HFS, TRGnSPI, the HIT-time byte, HSnLS, FREQ_CFG, SRC,
\* OL_EN, DPM_EN, HHF_EN
SameOutsideSetpoints(r, w) ==
  /\ BitSetW(w, 31) = BitSetW(r, 31)
  /\ BitSetW(w, 23) = BitSetW(r, 23)
  /\ FieldW(w, 8, 8) = FieldW(r, 8, 8)
  /\ FieldW(w, 0, 7) = FieldW(r, 0, 7)

\* C39: a successful SetHitCurrentMa or SetHoldCurrentMa changes only the
\* addressed setpoint field and the drive-mode bit: the other setpoint's code,
\* the HIT-time byte, the frequency divider and all flag bits are written back
\* exactly as they were read.
C39_SetCurrentFrame ==
  (/\ Returned
   /\ op \in {"SetHitCurrentMa", "SetHoldCurrentMa"}
   /\ ret = "OK"
   /\ ReadThenWrote)
  => /\ SameOutsideSetpoints(FrameReadWord, ProgrammedWord)
     /\ op = "SetHitCurrentMa"
          => FieldW(ProgrammedWord, 24, 7) = FieldW(FrameReadWord, 24, 7)
     /\ op = "SetHoldCurrentMa"
          => FieldW(ProgrammedWord, 16, 7) = FieldW(FrameReadWord, 16, 7)

\* register transactions of the call so far: one per command phase
InitTransactions ==
  Cardinality({ i \in 1 .. Len(trace) : IsCommandPhase(trace, i) })

InInitialize == op = "Initialize" /\ pc # "idle"

\* C40: every Initialize call returns, after at most three attempts and at
\* most nine register transactions.
C40_InitializeTerminates ==
  /\ [](op = "Initialize"
          => /\ InInitialize => attempt < 3
             /\ attempt <= 3
             /\ InitTransactions <= 9)
  /\ InInitialize ~> (op = "Initialize" /\ Returned)

C40_Witness ==
  /\ Returned
  /\ op = "Initialize"
  /\ ret = "COMMUNICATION_ERROR"
  /\ attempt = 3
  /\ comer_attempts = {0, 1, 2}
  /\ InitTransactions = 9

====
